---- MODULE Spec2Model ----
(***************************************************************************)
(* Verification model of the identity-document verification service:       *)
(* the Flask orchestrator (src/src/app.py), the face processor             *)
(* (src/src/face_processor.py) and the field resolver                      *)
(* (src/src/extractor.py, src/src/patterns.py).                            *)
(*                                                                         *)
(* Real numbers in [0,1] (similarities, confidences, liveness scores,      *)
(* thresholds) are fixed-point integers in units of 1/Scale.  The          *)
(* extraction score (0..100, step 12.5) is kept in tenths of a percent.    *)
(***************************************************************************)
EXTENDS Integers, Sequences, FiniteSets, TLC

\* one unit of a [0,1] quantity is 1/Scale
Scale == 100 * 100

\* face_processor.py:66  config["verification"]["threshold"] = 0.4
VerificationThreshold == 4000

\* face_processor.py:81  config["liveness"]["min_score"] = 0.7
LivenessMinScore == 7000

(***************************************************************************)
(* Vectors: embeddings and encodings are integer vectors (sequences).      *)
(***************************************************************************)
RECURSIVE DotFrom(_, _, _)
DotFrom(a, b, i) ==
    IF i > Len(a) THEN 0 ELSE a[i] * b[i] + DotFrom(a, b, i + 1)

\* np.dot
Dot(a, b) == DotFrom(a, b, 1)

RECURSIVE ISqrtBetween(_, _, _)
ISqrtBetween(n, lo, hi) ==
    IF lo >= hi THEN lo
    ELSE LET mid == (lo + hi + 1) \div 2
         IN  IF mid * mid <= n THEN ISqrtBetween(n, mid, hi)
                               ELSE ISqrtBetween(n, lo, mid - 1)

\* floor of the square root
ISqrt(n) == ISqrtBetween(n, 0, 40000)

\* np.linalg.norm
Norm(a) == ISqrt(Dot(a, a))

VecSub(a, b) == [i \in 1..Len(a) |-> a[i] - b[i]]

\* "no embedding" (Python None) is the empty vector
NoEmbedding == <<>>

SeqMin(s) == CHOOSE m \in {s[i] : i \in 1..Len(s)} : \A j \in 1..Len(s) : m <= s[j]

(***************************************************************************)
(* Images.  An image is known to the model by what the external engines    *)
(* return for it:                                                          *)
(*   insOk/insFaces : face_app.get(img)  raises / list of faces            *)
(*   frOk/frEncs    : face_recognition.face_encodings(img) raises / list   *)
(*   isNone         : cv2.imdecode returned None (undecodable bytes)       *)
(* and by the measurements check_liveness takes of it: the variance of the *)
(* Laplacian, the mean and the deviation of the saturation, and ten times  *)
(* the mean of the Canny edge map.                                         *)
(***************************************************************************)
Face(emb, det) == [embedding |-> emb, det_score |-> det]

Image(none, iok, ifaces, fok, fencs) ==
    [isNone |-> none, insOk |-> iok, insFaces |-> ifaces,
     frOk |-> fok, frEncs |-> fencs,
     laplacian_var |-> 0, saturation_mean |-> 0, saturation_std |-> 0,
     edge_mean10 |-> 0]

\* a None image: every engine call on it raises
NoneImage == Image(TRUE, FALSE, <<>>, FALSE, <<>>)

\* embeddings of norm 25 (their cosines are exact multiples of 1/625);
\* encodings whose pairwise distances are whole numbers of units
SampleImages ==
    { Image(FALSE, TRUE, << Face(<<25, 0>>, 9000) >>, TRUE, << <<0, 0>> >>),
      Image(FALSE, TRUE, << Face(<<15, 20>>, 9500) >>, TRUE, << <<3000, 4000>> >>),
      Image(FALSE, TRUE, << Face(<<24, 7>>, 8000), Face(<<-7, 24>>, 9900) >>,
            TRUE, << <<6000, 8000>>, <<0, 0>> >>),
      Image(FALSE, TRUE, <<>>, TRUE, << <<6000, 0>> >>),
      Image(FALSE, FALSE, <<>>, TRUE, << <<3000, 4000>>, <<6000, 0>> >>),
      Image(FALSE, TRUE, <<>>, TRUE, <<>>),
      Image(FALSE, FALSE, <<>>, FALSE, <<>>) }

\* id_metadata of verify_faces: None, or the dict extract_face_from_document built
Metadata(emb, det) == [present |-> TRUE, embedding |-> emb, det_score |-> det]

NoMetadata == [present |-> FALSE, embedding |-> NoEmbedding, det_score |-> 0]

SampleMetadata ==
    { NoMetadata, Metadata(NoEmbedding, 8000), Metadata(<<7, 24>>, 9000),
      Metadata(<<20, 15>>, 9000) }

(***************************************************************************)
(* FaceVerificationResult (face_processor.py:25-34) and call outcomes.     *)
(***************************************************************************)
FaceVerificationResult(v, c, m, e) ==
    [verified |-> v, confidence |-> c, verification_method |-> m, error |-> e]

NoError == "None"

\* the outcome of a call that may raise
Returned(r) == [raised |-> FALSE, result |-> r, message |-> NoError]

Raised(msg) ==
    [raised |-> TRUE, result |-> FaceVerificationResult(FALSE, 0, "raised", msg),
     message |-> msg]

\* extract_embedding: first face's embedding, None when no face or on error
extract_embedding(face_image) ==
    IF face_image.insOk /\ Len(face_image.insFaces) > 0
    THEN face_image.insFaces[1].embedding
    ELSE NoEmbedding

\* _cosine_similarity: dot / (norm1 * norm2), in units of 1/Scale
_cosine_similarity(embedding1, embedding2) ==
    (Dot(embedding1, embedding2) * Scale) \div (Norm(embedding1) * Norm(embedding2))

\* the embedding the primary path uses for the document face
IdEmbedding(id_face, id_metadata) ==
    IF id_metadata.present /\ id_metadata.embedding # NoEmbedding
    THEN id_metadata.embedding
    ELSE extract_embedding(id_face)

\* a faulty variant of the decision below: strict comparison
PrimaryVerified_Strict(similarity) == similarity > Scale - VerificationThreshold

\* the match decision of the primary path
PrimaryVerified(similarity) == similarity >= Scale - VerificationThreshold

\* the try block of verify_faces
PrimaryPath(id_face, selfie_face, id_metadata) ==
    LET id_embedding == IdEmbedding(id_face, id_metadata)
    IN  IF ~selfie_face.insOk THEN Raised("insightface engine error")
        ELSE IF id_embedding = NoEmbedding \/ Len(selfie_face.insFaces) = 0
        THEN Raised("Could not extract face embeddings")
        ELSE LET similarity ==
                     _cosine_similarity(id_embedding, selfie_face.insFaces[1].embedding)
             IN  Returned(FaceVerificationResult(PrimaryVerified(similarity), similarity,
                                                 "insightface", NoError))

\* face_recognition.face_distance: Euclidean distance of each encoding to one
face_distance(encodings, encoding) ==
    [i \in 1..Len(encodings) |-> Norm(VecSub(encodings[i], encoding))]

\* _verify_with_face_recognition
_verify_with_face_recognition(id_face, selfie_face) ==
    IF ~id_face.frOk \/ ~selfie_face.frOk THEN Raised("face_recognition error")
    ELSE IF Len(id_face.frEncs) = 0 \/ Len(selfie_face.frEncs) = 0
    THEN Raised("Could not find face in one or both images")
    ELSE LET distances    == face_distance(id_face.frEncs, selfie_face.frEncs[1])
             min_distance == SeqMin(distances)
             confidence   == Scale - min_distance
         IN  Returned(FaceVerificationResult(confidence >= VerificationThreshold,
                                             confidence, "face_recognition", NoError))

\* a faulty variant of the handler below: it reports the primary path's exception
FallbackFailed_PrimaryMessage(primary, fallback) ==
    Returned(FaceVerificationResult(FALSE, 0, "failed", primary.message))

\* the handler of a failed fallback
FallbackFailed(primary, fallback) ==
    Returned(FaceVerificationResult(FALSE, 0, "failed", fallback.message))

\* verify_faces: primary path, on any exception the fallback, on its failure "failed"
verify_faces(id_face, selfie_face, id_metadata) ==
    LET primary == PrimaryPath(id_face, selfie_face, id_metadata)
    IN  IF ~primary.raised THEN primary
        ELSE LET fallback == _verify_with_face_recognition(id_face, selfie_face)
             IN  IF ~fallback.raised THEN fallback
                 ELSE FallbackFailed(primary, fallback)

(***************************************************************************)
(* check_liveness (face_processor.py:360-401).  The three image signals    *)
(* are computed from the measurements the image carries; the quality       *)
(* signal is the detection score of the first face the engine finds.       *)
(***************************************************************************)
\* an image with the measurements check_liveness takes of it
Measured(img, lap, smean, sstd, edge10) ==
    [img EXCEPT !.laplacian_var = lap, !.saturation_mean = smean,
                !.saturation_std = sstd, !.edge_mean10 = edge10]

Min(a, b) == IF a <= b THEN a ELSE b

\* min(laplacian_var / 1000, 1.0)
blur_score(face_image) == Min((face_image.laplacian_var * Scale) \div 1000, Scale)

\* min((saturation_mean * saturation_std) / 5000, 1.0)
color_score(face_image) ==
    Min((face_image.saturation_mean * face_image.saturation_std * Scale) \div 5000, Scale)

\* _analyze_texture: min(mean(edges) / 255 * 10, 1.0)
_analyze_texture(face_image) == Min((face_image.edge_mean10 * Scale) \div 255, Scale)

\* weights = [0.25, 0.25, 0.3, 0.2]
liveness_weights == <<2500, 2500, 3000, 2000>>

RECURSIVE WeightedFrom(_, _, _)
WeightedFrom(scores, weights, i) ==
    IF i > Len(scores) \/ i > Len(weights) THEN 0
    ELSE scores[i] * weights[i] + WeightedFrom(scores, weights, i + 1)

\* sum(s * w for s, w in zip(scores, weights[:len(scores)]))
WeightedSum(scores, weights) == WeightedFrom(scores, weights, 1) \div Scale

LivenessReturned(score) == [raised |-> FALSE, score |-> score, message |-> NoError]

LivenessRaised(msg) == [raised |-> TRUE, score |-> 0, message |-> msg]

\* check_liveness: raises on a None image and when the engine raises
check_liveness(face_image) ==
    IF face_image.isNone THEN LivenessRaised("cvtColor: image is empty")
    ELSE IF ~face_image.insOk THEN LivenessRaised("insightface engine error")
    ELSE LET base == << blur_score(face_image), color_score(face_image),
                        _analyze_texture(face_image) >>
             faces == face_image.insFaces
             scores == IF Len(faces) > 0 /\ faces[1].det_score # 0
                       THEN Append(base, faces[1].det_score)
                       ELSE base
         IN  LivenessReturned(WeightedSum(scores, liveness_weights))

(***************************************************************************)
(* extract_face_from_document (face_processor.py:89-184).  A document      *)
(* image is known by what the detectors return for its face region: the    *)
(* engine's faces (or that the engine raises) and the cascade's boxes;     *)
(* each detection carries the image its enhanced crop is.                  *)
(***************************************************************************)
DocFace(emb, det, crop) == [embedding |-> emb, det_score |-> det, crop |-> crop]

Box(w, h, crop) == [w |-> w, h |-> h, crop |-> crop]

Document(none, rok, rfaces, boxes) ==
    [isNone |-> none, roiOk |-> rok, roiFaces |-> rfaces, cascadeBoxes |-> boxes]

\* an undecodable document image
NoneDocument == Document(TRUE, FALSE, <<>>, <<>>)

\* max(items, key): the index of the first item with the greatest key,
\* given the keys of the items
FirstMax(keys) ==
    CHOOSE k \in 1..Len(keys) :
        /\ \A j \in 1..Len(keys) : keys[j] <= keys[k]
        /\ \A j \in 1..(k - 1) : keys[j] < keys[k]

\* the pair (face image, metadata) extract_face_from_document returns
FaceFound(face_img, metadata) ==
    [raised |-> FALSE, found |-> TRUE, face_img |-> face_img, metadata |-> metadata]

\* (None, None)
NoFace ==
    [raised |-> FALSE, found |-> FALSE, face_img |-> NoneImage, metadata |-> NoMetadata]

\* an exception leaving the call instead of a pair
FaceRaised ==
    [raised |-> TRUE, found |-> FALSE, face_img |-> NoneImage, metadata |-> NoMetadata]

\* the detection score the cascade path reports
CascadeDetScore == 8000

\* the body of the try block: document_image.shape raises on None, and the
\* engine can raise
DetectDocumentFace(document_image) ==
    IF document_image.isNone \/ ~document_image.roiOk THEN FaceRaised
    ELSE IF Len(document_image.roiFaces) > 0
    THEN LET faces == document_image.roiFaces
             best_face == faces[FirstMax([i \in 1..Len(faces) |-> faces[i].det_score])]
         IN  FaceFound(best_face.crop,
                       Metadata(best_face.embedding, best_face.det_score))
    ELSE IF Len(document_image.cascadeBoxes) > 0
    THEN LET faces == document_image.cascadeBoxes
             largest_face ==
                 faces[FirstMax([i \in 1..Len(faces) |-> faces[i].w * faces[i].h])]
         IN  FaceFound(largest_face.crop, Metadata(NoEmbedding, CascadeDetScore))
    ELSE NoFace

\* a faulty variant of the function below: the exception is not caught
extract_face_from_document_Uncaught(document_image) ==
    DetectDocumentFace(document_image)

\* except Exception: return None, None
extract_face_from_document(document_image) ==
    LET out == DetectDocumentFace(document_image)
    IN  IF out.raised THEN NoFace ELSE out

(***************************************************************************)
(* Strings.  A Python str is a sequence of one-character strings, so that  *)
(* replace, upper, split, int() and formatting are computed, not assumed.  *)
(* None is the empty sequence (no extractor can assign an empty string).   *)
(***************************************************************************)
None == <<>>

Digits == <<"0", "1", "2", "3", "4", "5", "6", "7", "8", "9">>

LowerCase ==
    <<"a", "b", "c", "d", "e", "f", "g", "h", "i", "j", "k", "l", "m",
      "n", "o", "p", "q", "r", "s", "t", "u", "v", "w", "x", "y", "z">>

UpperCase ==
    <<"A", "B", "C", "D", "E", "F", "G", "H", "I", "J", "K", "L", "M",
      "N", "O", "P", "Q", "R", "S", "T", "U", "V", "W", "X", "Y", "Z">>

IsDigit(ch) == \E i \in 1..10 : Digits[i] = ch

DigitVal(ch) == (CHOOSE i \in 1..10 : Digits[i] = ch) - 1

\* regex \s
SpaceChars == {" ", "\n", "\t", "\r"}

\* str.upper, one character
UpperChar(ch) ==
    IF \E i \in 1..26 : LowerCase[i] = ch
    THEN UpperCase[CHOOSE i \in 1..26 : LowerCase[i] = ch]
    ELSE ch

\* str.upper
Upper(s) == [i \in 1..Len(s) |-> UpperChar(s[i])]

\* str.replace(old, new) for single characters
ReplaceChar(s, old, new) == [i \in 1..Len(s) |-> IF s[i] = old THEN new ELSE s[i]]

\* str.replace(old, '') for a single character
RemoveChar(s, old) == SelectSeq(s, LAMBDA ch : ch # old)

AllDigits(s) == \A i \in 1..Len(s) : IsDigit(s[i])

\* needle in haystack (Python substring test)
Contains(haystack, needle) ==
    \E k \in 0..(Len(haystack) - Len(needle)) :
        \A i \in 1..Len(needle) : haystack[k + i] = needle[i]

RECURSIVE StripLeft(_)
StripLeft(s) == IF s # <<>> /\ Head(s) \in SpaceChars THEN StripLeft(Tail(s)) ELSE s

RECURSIVE StripRight(_)
StripRight(s) ==
    IF s # <<>> /\ s[Len(s)] \in SpaceChars THEN StripRight(SubSeq(s, 1, Len(s) - 1)) ELSE s

\* str.strip
Strip(s) == StripRight(StripLeft(s))

\* re.sub(r'[\s\.]', '-', s): every whitespace character or dot becomes a hyphen
SubSpaceDotEach(s) ==
    [i \in 1..Len(s) |-> IF s[i] \in SpaceChars \/ s[i] = "." THEN "-" ELSE s[i]]

\* re.sub(cls + '+', '-', s): every maximal run of characters of the class
\* becomes one hyphen
RECURSIVE SubRuns(_, _, _)
SubRuns(s, class, inRun) ==
    IF s = <<>> THEN <<>>
    ELSE IF Head(s) \in class
         THEN (IF inRun THEN <<>> ELSE <<"-">>) \o SubRuns(Tail(s), class, TRUE)
         ELSE <<Head(s)>> \o SubRuns(Tail(s), class, FALSE)

\* str.split(sep) for a single-character separator
RECURSIVE SplitFrom(_, _, _)
SplitFrom(s, sep, cur) ==
    IF s = <<>> THEN <<cur>>
    ELSE IF Head(s) = sep THEN <<cur>> \o SplitFrom(Tail(s), sep, <<>>)
    ELSE SplitFrom(Tail(s), sep, Append(cur, Head(s)))

Split(s, sep) == SplitFrom(s, sep, <<>>)

\* int(s) succeeds (s holds no whitespace or sign here: both were separators)
IntOk(s) == s # <<>> /\ AllDigits(s)

RECURSIVE IntFrom(_, _)
IntFrom(s, acc) ==
    IF s = <<>> THEN acc ELSE IntFrom(Tail(s), acc * 10 + DigitVal(Head(s)))

\* int(s)
Int_(s) == IntFrom(s, 0)

RECURSIVE NatToStr(_)
NatToStr(n) ==
    IF n < 10 THEN <<Digits[n + 1]>>
    ELSE NatToStr(n \div 10) \o <<Digits[(n % 10) + 1]>>

\* f"{n:02d}"
Pad2(n) == IF n < 10 THEN <<"0">> \o NatToStr(n) ELSE NatToStr(n)

RECURSIVE Flatten(_)
Flatten(ss) == IF ss = <<>> THEN <<>> ELSE Head(ss) \o Flatten(Tail(ss))

(***************************************************************************)
(* Constant tables of patterns.py and extractor.py.  A character outside   *)
(* ASCII is written as the one-character string "uXXXX" of its code point. *)
(***************************************************************************)
\* patterns.py: non_name_words
non_name_words ==
    <<
       <<"R", "E", "P", "U", "B", "L", "I", "C">>,
       <<"S", "U", "D", "A", "N">>,
       <<"P", "A", "S", "S", "P", "O", "R", "T">>,
       <<"T", "Y", "P", "E">>,
       <<"N", "A", "T", "I", "O", "N", "A", "L">>,
       <<"N", "U", "M", "B", "E", "R">>,
       <<"D", "A", "T", "E">>,
       <<"B", "I", "R", "T", "H">>,
       <<"I", "S", "S", "U", "E">>,
       <<"E", "X", "P", "I", "R", "Y">>,
       <<"S", "E", "X">>,
       <<"P", "L", "A", "C", "E">>,
       <<"N", "A", "T", "I", "O", "N", "A", "L", "I", "T", "Y">>,
       <<"S", "I", "G", "N", "A", "T", "U", "R", "E">>,
       <<"H", "O", "L", "D", "E", "R">>,
       <<"A", "U", "T", "H", "O", "R", "I", "T", "Y">>,
       <<"G", "E", "N", "D", "E", "R">>,
       <<"C", "O", "U", "N", "T", "R", "Y">>,
       <<"C", "O", "D", "E">>,
       <<"D", "O", "C", "U", "M", "E", "N", "T">>,
       <<"I", "D", "E", "N", "T", "I", "F", "I", "C", "A", "T", "I", "O",
         "N">>,
       <<"u062C", "u0645", "u0647", "u0648", "u0631", "u064A", "u0629">>,
       <<"u0627", "u0644", "u0633", "u0648", "u062F", "u0627", "u0646">>,
       <<"u062C", "u0648", "u0627", "u0632">>,
       <<"u0646", "u0648", "u0639">>,
       <<"u0631", "u0642", "u0645">>,
       <<"u062A", "u0627", "u0631", "u064A", "u062E">>,
       <<"u0645", "u064A", "u0644", "u0627", "u062F">>,
       <<"u0625", "u0635", "u062F", "u0627", "u0631">>,
       <<"u0627", "u0646", "u062A", "u0647", "u0627", "u0621">>,
       <<"u0645", "u0643", "u0627", "u0646">>
    >>

\* extractor.py: preferred_sources of _extract_name
preferred_sources ==
    <<
       <<"u", "n", "i", "f", "o", "r", "m", "_", "b", "l", "o", "c", "k">>,
       <<"h", "i", "g", "h", "_", "c", "o", "n", "f", "i", "d", "e", "n",
         "c", "e">>,
       <<"s", "i", "n", "g", "l", "e", "_", "c", "o", "l", "u", "m", "n">>
    >>

Str_SUDANESE == <<"S", "U", "D", "A", "N", "E", "S", "E">>

Str_SDN == <<"S", "D", "N">>

Str_PC == <<"P", "C">>


(***************************************************************************)
(* Field resolver (extractor.py).                                          *)
(*                                                                         *)
(* A text is known to the model by the hits of the pattern lists of        *)
(* patterns.py in it: for each list, the sequence of hits in the order the *)
(* code visits them (patterns in list order, matches left to right), each  *)
(* hit being the index of its pattern and the matched value (group 1 when  *)
(* the pattern has a group, the whole match otherwise).  For the two       *)
(* gazetteers a hit is an entry that occurs in text.upper().  What the     *)
(* code does with a hit (cleaning, validation, selection) is computed.     *)
(***************************************************************************)
Hit(p, v) == [pat |-> p, val |-> v]

\* (source_name, text) of all_extracted_texts
Observation(src, txt) == [source |-> src, text |-> txt]

Families == {"passport", "national_id", "date", "name", "sex", "places", "indicators"}

MaxOf(S) == IF S = {} THEN 0 ELSE CHOOSE m \in S : \A n \in S : n <= m

PatsOf(all_texts, fam) ==
    UNION { { all_texts[i].text[fam][j].pat : j \in 1..Len(all_texts[i].text[fam]) } :
            i \in 1..Len(all_texts) }

RECURSIVE CombinedFrom(_, _, _, _)
CombinedFrom(all_texts, fam, p, maxp) ==
    IF p > maxp THEN <<>>
    ELSE Flatten([i \in 1..Len(all_texts) |->
                    SelectSeq(all_texts[i].text[fam], LAMBDA h : h.pat = p)])
         \o CombinedFrom(all_texts, fam, p + 1, maxp)

\* the hits of one pattern list in combined_text = '\n'.join(texts): pattern by
\* pattern, and within a pattern text by text
CombinedHits(all_texts, fam) ==
    CombinedFrom(all_texts, fam, 1, MaxOf(PatsOf(all_texts, fam)))

\* re.search over the pattern list: the hit of the first pattern that matches
\* (a text holds at most one hit per pattern of this list)
FirstSearchHit(all_texts, fam) ==
    LET hits == CombinedHits(all_texts, fam)
    IN  IF hits = <<>> THEN <<>> ELSE <<Head(hits)>>

\* data as _smart_field_extraction creates it
EmptyData ==
    [passport_type |-> None, country_code |-> None, passport_number |-> None,
     full_name |-> None, nationality |-> None, place_of_birth |-> None,
     sex |-> None, date_of_birth |-> None, date_of_issue |-> None,
     date_of_expiry |-> None, national_id |-> None,
     confidence_scores |-> <<>>, extraction_method |-> <<>>]

\* d[key] = value for a key of a dict-valued entry
SetEntry(map, key, value) == (key :> value) @@ map

\* '$' also matches before one trailing newline
BeforeDollar(c) ==
    IF c # <<>> /\ c[Len(c)] = "\n" THEN SubSeq(c, 1, Len(c) - 1) ELSE c

\* candidate.replace('O', '0').replace(' ', '').upper()
CleanPassportNumber(candidate) ==
    Upper(RemoveChar(ReplaceChar(candidate, "O", "0"), " "))

\* re.match(r'^P[0-9]{8,9}$', candidate)
ValidPassportNumber(candidate) ==
    LET c == BeforeDollar(candidate)
    IN  /\ Len(c) \in {9, 10}
        /\ c[1] = "P"
        /\ AllDigits(Tail(c))

\* the candidates in the order the three nested loops visit them
PassportCandidates(all_texts) ==
    Flatten([i \in 1..Len(all_texts) |->
               [j \in 1..Len(all_texts[i].text.passport) |->
                  [source |-> all_texts[i].source,
                   candidate |->
                       CleanPassportNumber(all_texts[i].text.passport[j].val)]]])

\* a faulty variant of the extractor below: the last accepted candidate wins
_extract_passport_number_LastWins(data, all_texts) ==
    LET accepted == SelectSeq(PassportCandidates(all_texts),
                              LAMBDA c : ValidPassportNumber(c.candidate))
    IN  IF accepted = <<>> THEN data
        ELSE [data EXCEPT
                !.passport_number = accepted[Len(accepted)].candidate,
                !.extraction_method =
                    SetEntry(@, "passport_number", accepted[Len(accepted)].source),
                !.confidence_scores = SetEntry(@, "passport_number", 9500)]

\* _extract_passport_number
_extract_passport_number(data, all_texts) ==
    LET accepted == SelectSeq(PassportCandidates(all_texts),
                              LAMBDA c : ValidPassportNumber(c.candidate))
    IN  IF accepted = <<>> THEN data
        ELSE [data EXCEPT
                !.passport_number = accepted[1].candidate,
                !.extraction_method =
                    SetEntry(@, "passport_number", accepted[1].source),
                !.confidence_scores = SetEntry(@, "passport_number", 9500)]

\* a faulty variant of the check below: the hyphens are optional
ValidNationalId_HyphensOptional(candidate) ==
    LET c == RemoveChar(BeforeDollar(candidate), "-")
    IN  Len(c) \in {11, 12} /\ AllDigits(c)

\* re.match(r'^\d{3}-\d{4}-\d{4,5}$', candidate)
ValidNationalId(candidate) ==
    LET c == BeforeDollar(candidate)
    IN  /\ Len(c) \in {13, 14}
        /\ AllDigits(SubSeq(c, 1, 3)) /\ c[4] = "-"
        /\ AllDigits(SubSeq(c, 5, 8)) /\ c[9] = "-"
        /\ AllDigits(SubSeq(c, 10, Len(c)))

\* _extract_national_id
_extract_national_id(data, all_texts) ==
    LET hits     == CombinedHits(all_texts, "national_id")
        cleaned  == [i \in 1..Len(hits) |-> SubSpaceDotEach(hits[i].val)]
        accepted == SelectSeq(cleaned, ValidNationalId)
    IN  IF accepted = <<>> THEN data
        ELSE [data EXCEPT
                !.national_id = accepted[1],
                !.confidence_scores = SetEntry(@, "national_id", 9000)]

\* the two re.sub calls of _extract_dates
NormalizeDate(date) ==
    SubRuns(SubRuns(date, SpaceChars \cup {"."}, FALSE), {"/"}, FALSE)

\* a faulty variant of the check below: any three numbers pass
ValidDateParts_AnyNumbers(parts) ==
    /\ Len(parts) = 3
    /\ IntOk(parts[1]) /\ IntOk(parts[2]) /\ IntOk(parts[3])

\* the component check of _extract_dates; int() raising skips the date
ValidDateParts(parts) ==
    /\ Len(parts) = 3
    /\ IntOk(parts[1]) /\ IntOk(parts[2]) /\ IntOk(parts[3])
    /\ 1 <= Int_(parts[1]) /\ Int_(parts[1]) <= 31
    /\ 1 <= Int_(parts[2]) /\ Int_(parts[2]) <= 12
    /\ 1900 <= Int_(parts[3]) /\ Int_(parts[3]) <= 2100

\* f"{day:02d}-{month:02d}-{year}"
FormatDate(parts) ==
    Pad2(Int_(parts[1])) \o <<"-">> \o Pad2(Int_(parts[2])) \o <<"-">>
        \o NatToStr(Int_(parts[3]))

\* valid_dates before deduplication, as a set
ValidDates(all_texts) ==
    LET hits == CombinedHits(all_texts, "date")
    IN  { FormatDate(Split(NormalizeDate(hits[i].val), "-")) :
            i \in { j \in 1..Len(hits) :
                      ValidDateParts(Split(NormalizeDate(hits[j].val), "-")) } }

\* the sort key (year, month, day) of a formatted date, as one number
DateKey(x) ==
    LET parts == Split(x, "-")
    IN  (Int_(parts[3]) * 100 + Int_(parts[2])) * 100 + Int_(parts[1])

\* a faulty variant of the sort below: latest date first
RECURSIVE SortDates_Descending(_)
SortDates_Descending(S) ==
    IF S = {} THEN <<>>
    ELSE LET first == CHOOSE x \in S : \A y \in S : DateKey(x) >= DateKey(y)
         IN  <<first>> \o SortDates_Descending(S \ {first})

RECURSIVE SortDates(_)
SortDates(S) ==
    IF S = {} THEN <<>>
    ELSE LET first == CHOOSE x \in S : \A y \in S : DateKey(x) <= DateKey(y)
         IN  <<first>> \o SortDates(S \ {first})

\* a faulty variant of the assignment below: date_of_issue is always the
\* second date
AssignDates_SecondIsIssue(data, valid_dates) ==
    LET n  == Len(valid_dates)
        d1 == IF n >= 1
              THEN [data EXCEPT
                      !.date_of_birth = valid_dates[1],
                      !.confidence_scores = SetEntry(@, "date_of_birth", 8500)]
              ELSE data
        d2 == IF n >= 2
              THEN [d1 EXCEPT
                      !.date_of_issue = valid_dates[2],
                      !.confidence_scores = SetEntry(@, "date_of_issue", 8000)]
              ELSE d1
    IN  IF n >= 3
        THEN [d2 EXCEPT
                !.date_of_expiry = valid_dates[n],
                !.confidence_scores = SetEntry(@, "date_of_expiry", 8500)]
        ELSE d2

\* the positional assignment of _extract_dates
AssignDates(data, valid_dates) ==
    LET n  == Len(valid_dates)
        d1 == IF n >= 1
              THEN [data EXCEPT
                      !.date_of_birth = valid_dates[1],
                      !.confidence_scores = SetEntry(@, "date_of_birth", 8500)]
              ELSE data
        d2 == IF n >= 2
              THEN [d1 EXCEPT
                      !.date_of_issue =
                          IF n >= 3 THEN valid_dates[n - 1] ELSE valid_dates[2],
                      !.confidence_scores = SetEntry(@, "date_of_issue", 8000)]
              ELSE d1
    IN  IF n >= 3
        THEN [d2 EXCEPT
                !.date_of_expiry = valid_dates[n],
                !.confidence_scores = SetEntry(@, "date_of_expiry", 8500)]
        ELSE d2

\* _extract_dates
_extract_dates(data, all_texts) == AssignDates(data, SortDates(ValidDates(all_texts)))

\* the candidates of _extract_name in visiting order, stripped
NameMatches(all_texts) ==
    Flatten([i \in 1..Len(all_texts) |->
               [j \in 1..Len(all_texts[i].text.name) |->
                  [name |-> Strip(all_texts[i].text.name[j].val),
                   source |-> all_texts[i].source]]])

\* not any(word in name ...) and 10 <= len(name) <= 60
AcceptableName(name) ==
    /\ ~\E k \in 1..Len(non_name_words) : Contains(name, non_name_words[k])
    /\ 10 <= Len(name) /\ Len(name) <= 60

\* name_candidates
NameCandidates(all_texts) ==
    SelectSeq(NameMatches(all_texts), LAMBDA c : AcceptableName(c.name))

\* the candidates from a source whose label contains the given method name
FromSource(name_candidates, source) ==
    SelectSeq(name_candidates, LAMBDA c : Contains(c.source, source))

\* the ranks (in preferred_sources) that have a candidate
PreferredRanks(name_candidates) ==
    { r \in 1..Len(preferred_sources) :
        FromSource(name_candidates, preferred_sources[r]) # <<>> }

\* max(name_candidates, key=len): the first candidate of maximal length
LongestName(name_candidates) ==
    name_candidates[
        CHOOSE i \in 1..Len(name_candidates) :
            /\ \A j \in 1..Len(name_candidates) :
                   Len(name_candidates[j].name) <= Len(name_candidates[i].name)
            /\ \A j \in 1..(i - 1) :
                   Len(name_candidates[j].name) < Len(name_candidates[i].name)]

\* a faulty variant of the selection below: the last preferred source with a
\* candidate wins
SelectName_LastPreferred(name_candidates) ==
    LET ranks == PreferredRanks(name_candidates)
    IN  IF ranks # {}
        THEN LET r == CHOOSE x \in ranks : \A y \in ranks : y <= x
             IN  [pick |-> FromSource(name_candidates, preferred_sources[r])[1],
                  confidence |-> 8500]
        ELSE [pick |-> LongestName(name_candidates), confidence |-> 7500]

\* the candidate _extract_name selects and its confidence
SelectName(name_candidates) ==
    LET ranks == PreferredRanks(name_candidates)
    IN  IF ranks # {}
        THEN LET r == CHOOSE x \in ranks : \A y \in ranks : x <= y
             IN  [pick |-> FromSource(name_candidates, preferred_sources[r])[1],
                  confidence |-> 8500]
        ELSE [pick |-> LongestName(name_candidates), confidence |-> 7500]

\* _extract_name
_extract_name(data, all_texts) ==
    LET name_candidates == NameCandidates(all_texts)
    IN  IF name_candidates = <<>> THEN data
        ELSE LET sel == SelectName(name_candidates)
             IN  [data EXCEPT
                    !.full_name = sel.pick.name,
                    !.extraction_method = SetEntry(@, "full_name", sel.pick.source),
                    !.confidence_scores = SetEntry(@, "full_name", sel.confidence)]

\* _extract_sex
_extract_sex(data, all_texts) ==
    LET hit == FirstSearchHit(all_texts, "sex")
    IN  IF hit = <<>> THEN data
        ELSE [data EXCEPT
                !.sex = IF hit[1].val # <<>> THEN <<UpperChar(hit[1].val[1])>> ELSE None,
                !.confidence_scores = SetEntry(@, "sex", 9500)]

\* _extract_place_of_birth: the first gazetteer entry found in text.upper()
_extract_place_of_birth(data, all_texts) ==
    LET hit == FirstSearchHit(all_texts, "places")
    IN  IF hit = <<>> THEN data
        ELSE [data EXCEPT
                !.place_of_birth = hit[1].val,
                !.confidence_scores = SetEntry(@, "place_of_birth", 8500)]

\* a faulty variant of the extractor below: it sets nationality alone
_extract_nationality_Alone(data, all_texts) ==
    IF CombinedHits(all_texts, "indicators") # <<>>
    THEN [data EXCEPT
            !.nationality = Str_SUDANESE,
            !.confidence_scores = SetEntry(@, "nationality", 9500)]
    ELSE data

\* _extract_nationality
_extract_nationality(data, all_texts) ==
    IF CombinedHits(all_texts, "indicators") # <<>>
    THEN [data EXCEPT
            !.nationality = Str_SUDANESE,
            !.country_code = Str_SDN,
            !.passport_type = Str_PC,
            !.confidence_scores = SetEntry(@, "nationality", 9500)]
    ELSE data

\* important_fields of _calculate_score
important_fields ==
    <<"passport_number", "full_name", "nationality", "date_of_birth",
      "date_of_issue", "date_of_expiry", "national_id", "sex">>

\* fields of _generate_summary
summary_fields ==
    <<"passport_number", "full_name", "nationality", "national_id",
      "date_of_birth", "date_of_issue", "date_of_expiry", "sex",
      "place_of_birth", "country_code">>

\* sum(1 for field in fields if data.get(field))
CountExtracted(data, fields) ==
    Cardinality({ i \in 1..Len(fields) : data[fields[i]] # None })

\* a faulty variant of the score below: it counts the fields of the summary
_calculate_score_SummaryFields(data) ==
    (CountExtracted(data, summary_fields) * 1000) \div Len(important_fields)

\* _calculate_score: (extracted / len(important_fields)) * 100, in tenths of a percent
_calculate_score(data) ==
    (CountExtracted(data, important_fields) * 1000) \div Len(important_fields)

\* _generate_summary: "<extracted>/<len(fields)> fields extracted"
_generate_summary(data) ==
    [extracted |-> CountExtracted(data, summary_fields), of |-> Len(summary_fields)]

\* _smart_field_extraction
_smart_field_extraction(all_texts) ==
    LET d1 == _extract_passport_number(EmptyData, all_texts)
        d2 == _extract_national_id(d1, all_texts)
        d3 == _extract_dates(d2, all_texts)
        d4 == _extract_name(d3, all_texts)
        d5 == _extract_sex(d4, all_texts)
        d6 == _extract_place_of_birth(d5, all_texts)
    IN  _extract_nationality(d6, all_texts)

\* the two entries extract adds to the finished field set
Finalize(data) ==
    ("extraction_score" :> _calculate_score(data))
        @@ ("extraction_summary" :> _generate_summary(data)) @@ data

\* extract, from the collected observations on
extract(all_texts) == Finalize(_smart_field_extraction(all_texts))

(***************************************************************************)
(* Sample observations: texts with the hits the pattern lists of           *)
(* patterns.py have in them, under source labels the aggregator builds     *)
(* ("<variant>_<mode>").                                                   *)
(***************************************************************************)
\* the text 'P12345678 SDN\nMOHAMED AHMED ALI\nSex M\n01-01-1990 KHARTOUM\n15-03-2015\n15-03-2025\n123-4567-8901'
Text_full ==
    [passport |-> <<Hit(1, <<"P", "1", "2", "3", "4", "5", "6", "7", "8">>),
                    Hit(2, <<"P", "1", "2", "3", "4", "5", "6", "7", "8">>),
                    Hit(5, <<"P", "1", "2", "3", "4", "5", "6", "7", "8">>),
                    Hit(7, <<"P", "1", "2", "3", "4", "5", "6", "7", "8">>)>>,
     national_id |-> <<Hit(1, <<"1", "2", "3", "-", "4", "5", "6", "7", "-", "8", "9", "0", "1">>),
                       Hit(2, <<"1", "2", "3", "-", "4", "5", "6", "7", "-", "8", "9", "0", "1">>),
                       Hit(6, <<"1", "2", "3", "-", "4", "5", "6", "7", "-", "8", "9", "0", "1">>)>>,
     date |-> <<Hit(1, <<"0", "1", "-", "0", "1", "-", "1", "9", "9", "0">>),
                Hit(1, <<"1", "5", "-", "0", "3", "-", "2", "0", "1", "5">>),
                Hit(1, <<"1", "5", "-", "0", "3", "-", "2", "0", "2", "5">>),
                Hit(2, <<"0", "1", "-", "0", "1", "-", "1", "9", "9", "0">>),
                Hit(2, <<"1", "5", "-", "0", "3", "-", "2", "0", "1", "5">>),
                Hit(2, <<"1", "5", "-", "0", "3", "-", "2", "0", "2", "5">>),
                Hit(3, <<"0", "1", "-", "0", "1", "-", "1", "9", "9", "0">>),
                Hit(3, <<"1", "5", "-", "0", "3", "-", "2", "0", "1", "5">>),
                Hit(3, <<"1", "5", "-", "0", "3", "-", "2", "0", "2", "5">>),
                Hit(6, <<"0", "1", "-", "0", "1", "-", "1", "9", "9", "0">>),
                Hit(6, <<"1", "5", "-", "0", "3", "-", "2", "0", "1", "5">>),
                Hit(6, <<"1", "5", "-", "0", "3", "-", "2", "0", "2", "5">>)>>,
     name |-> <<Hit(1, <<"S", "D", "N", "\n", "M", "O", "H", "A", "M", "E", "D", " ", "A", "H", "M", "E", "D", " ", "A", "L", "I">>),
                Hit(2, <<"S", "D", "N", "\n", "M", "O", "H", "A", "M", "E", "D", " ", "A", "H", "M", "E", "D", " ", "A", "L", "I", "\n", "S">>),
                Hit(5, <<"A", "H", "M", "E", "D", " ">>),
                Hit(6, <<"S", "D", "N", "\n", "M", "O", "H", "A", "M", "E", "D", " ", "A", "H", "M", "E", "D", " ", "A", "L", "I", "\n", "S">>)>>,
     sex |-> <<Hit(2, <<"M">>),
               Hit(3, <<"M">>)>>,
     places |-> <<Hit(1, <<"K", "H", "A", "R", "T", "O", "U", "M">>)>>,
     indicators |-> <<Hit(1, <<"S", "D", "N">>)>>]

\* the text 'PO1234567 x 01/01/1990 x 15.03.2015'
Text_ocr ==
    [passport |-> <<Hit(5, <<"P", "O", "1", "2", "3", "4", "5", "6", "7">>),
                    Hit(6, <<"P", "O", "1", "2", "3", "4", "5", "6", "7">>),
                    Hit(7, <<"P", "O", "1", "2", "3", "4", "5", "6", "7">>)>>,
     national_id |-> <<>>,
     date |-> <<Hit(1, <<"0", "1", "/", "0", "1", "/", "1", "9", "9", "0">>),
                Hit(2, <<"0", "1", "/", "0", "1", "/", "1", "9", "9", "0">>),
                Hit(3, <<"0", "1", "/", "0", "1", "/", "1", "9", "9", "0">>),
                Hit(4, <<"1", "5", ".", "0", "3", ".", "2", "0", "1", "5">>),
                Hit(6, <<"0", "1", "/", "0", "1", "/", "1", "9", "9", "0">>),
                Hit(6, <<"1", "5", ".", "0", "3", ".", "2", "0", "1", "5">>)>>,
     name |-> <<>>,
     sex |-> <<Hit(1, <<"/">>),
               Hit(2, <<"/">>)>>,
     places |-> <<>>,
     indicators |-> <<>>]

\* the text 'hello world'
Text_noise ==
    [passport |-> <<>>,
     national_id |-> <<>>,
     date |-> <<>>,
     name |-> <<>>,
     sex |-> <<>>,
     places |-> <<>>,
     indicators |-> <<>>]

\* the text 'AHMED MOHAMED OSMAN'
Text_name ==
    [passport |-> <<>>,
     national_id |-> <<>>,
     date |-> <<>>,
     name |-> <<Hit(1, <<"A", "H", "M", "E", "D", " ", "M", "O", "H", "A", "M", "E", "D", " ", "O", "S", "M", "A", "N">>),
                Hit(2, <<"A", "H", "M", "E", "D", " ", "M", "O", "H", "A", "M", "E", "D", " ", "O", "S", "M", "A", "N">>),
                Hit(5, <<"M", "O", "H", "A", "M", "E", "D", " ">>),
                Hit(6, <<"A", "H", "M", "E", "D", " ", "M", "O", "H", "A", "M", "E", "D", " ", "O", "S", "M", "A", "N">>)>>,
     sex |-> <<>>,
     places |-> <<>>,
     indicators |-> <<>>]

\* the text 'REPUBLIC OF THE SUDAN'
Text_sudan ==
    [passport |-> <<>>,
     national_id |-> <<>>,
     date |-> <<>>,
     name |-> <<Hit(1, <<"T", "H", "E", " ", "S", "U", "D", "A", "N">>),
                Hit(2, <<"R", "E", "P", "U", "B", "L", "I", "C", " ", "O", "F", " ", "T", "H", "E", " ", "S", "U", "D", "A", "N">>),
                Hit(5, <<"T", "H", "E", " ">>),
                Hit(6, <<"R", "E", "P", "U", "B", "L", "I", "C", " ", "O", "F", " ", "T", "H", "E", " ", "S", "U", "D", "A", "N">>)>>,
     sex |-> <<>>,
     places |-> <<>>,
     indicators |-> <<Hit(2, <<"S", "U", "D", "A", "N">>),
                      Hit(4, <<"R", "E", "P", "U", "B", "L", "I", "C", " ", "O", "F", " ", "T", "H", "E", " ", "S", "U", "D", "A", "N">>)>>]

\* the text 'D12345678 99-99-2015 12345678901'
Text_bad ==
    [passport |-> <<Hit(5, <<"D", "1", "2", "3", "4", "5", "6", "7", "8">>),
                    Hit(7, <<"D", "1", "2", "3", "4", "5", "6", "7", "8">>)>>,
     national_id |-> <<Hit(1, <<"0", "1", "5", " ", "1", "2", "3", "4", "5", "6", "7", "8", "9">>),
                       Hit(2, <<"0", "1", "5", " ", "1", "2", "3", "4", "5", "6", "7", "8", "9">>),
                       Hit(4, <<"1", "2", "3", "4", "5", "6", "7", "8", "9", "0", "1">>),
                       Hit(5, <<"1", "2", "3", "4", "5", "6", "7", "8", "9", "0", "1">>)>>,
     date |-> <<Hit(1, <<"9", "9", "-", "9", "9", "-", "2", "0", "1", "5">>),
                Hit(2, <<"9", "9", "-", "9", "9", "-", "2", "0", "1", "5">>),
                Hit(3, <<"9", "9", "-", "9", "9", "-", "2", "0", "1", "5">>)>>,
     name |-> <<>>,
     sex |-> <<>>,
     places |-> <<>>,
     indicators |-> <<>>]

\* the text 'Sex: F\n123 4567 89012'
Text_id ==
    [passport |-> <<>>,
     national_id |-> <<Hit(1, <<"1", "2", "3", " ", "4", "5", "6", "7", " ", "8", "9", "0", "1", "2">>),
                       Hit(2, <<"1", "2", "3", " ", "4", "5", "6", "7", " ", "8", "9", "0", "1", "2">>),
                       Hit(6, <<"1", "2", "3", " ", "4", "5", "6", "7", " ", "8", "9", "0", "1", "2">>)>>,
     date |-> <<>>,
     name |-> <<>>,
     sex |-> <<Hit(1, <<"F">>),
               Hit(3, <<"F">>)>>,
     places |-> <<>>,
     indicators |-> <<>>]

\* the text 'P 87654321\nFATIMA HASSAN OMER\nGender: F\n07-08-1985 OMDURMAN\n1-2-2019\n01-02-2029'
Text_most ==
    [passport |-> <<Hit(1, <<"P", " ", "8", "7", "6", "5", "4", "3", "2", "1">>),
                    Hit(5, <<"P", " ", "8", "7", "6", "5", "4", "3", "2", "1">>)>>,
     national_id |-> <<>>,
     date |-> <<Hit(1, <<"0", "7", "-", "0", "8", "-", "1", "9", "8", "5">>),
                Hit(1, <<"0", "1", "-", "0", "2", "-", "2", "0", "2", "9">>),
                Hit(2, <<"0", "7", "-", "0", "8", "-", "1", "9", "8", "5">>),
                Hit(2, <<"0", "1", "-", "0", "2", "-", "2", "0", "2", "9">>),
                Hit(3, <<"0", "7", "-", "0", "8", "-", "1", "9", "8", "5">>),
                Hit(3, <<"1", "-", "2", "-", "2", "0", "1", "9">>),
                Hit(3, <<"0", "1", "-", "0", "2", "-", "2", "0", "2", "9">>),
                Hit(6, <<"0", "7", "-", "0", "8", "-", "1", "9", "8", "5">>),
                Hit(6, <<"0", "1", "-", "0", "2", "-", "2", "0", "2", "9">>)>>,
     name |-> <<Hit(1, <<"F", "A", "T", "I", "M", "A", " ", "H", "A", "S", "S", "A", "N", " ", "O", "M", "E", "R">>),
                Hit(2, <<"F", "A", "T", "I", "M", "A", " ", "H", "A", "S", "S", "A", "N", " ", "O", "M", "E", "R", "\n", "G">>),
                Hit(5, <<"H", "A", "S", "S", "A", "N", " ">>),
                Hit(6, <<"F", "A", "T", "I", "M", "A", " ", "H", "A", "S", "S", "A", "N", " ", "O", "M", "E", "R", "\n", "G">>)>>,
     sex |-> <<Hit(1, <<"F">>),
               Hit(3, <<"F">>)>>,
     places |-> <<Hit(2, <<"O", "M", "D", "U", "R", "M", "A", "N">>)>>,
     indicators |-> <<>>]

\* the text 'Issued 05.06.2001 KASSALA 2015-03-15'
Text_one ==
    [passport |-> <<>>,
     national_id |-> <<>>,
     date |-> <<Hit(4, <<"0", "5", ".", "0", "6", ".", "2", "0", "0", "1">>),
                Hit(6, <<"0", "5", ".", "0", "6", ".", "2", "0", "0", "1">>),
                Hit(7, <<"2", "0", "1", "5", "-", "0", "3", "-", "1", "5">>)>>,
     name |-> <<>>,
     sex |-> <<>>,
     places |-> <<Hit(4, <<"K", "A", "S", "S", "A", "L", "A">>)>>,
     indicators |-> <<>>]

\* the text 'Name OSMAN ABDALLA IBRAHIM Sex M 01/02/2019'
Text_conf ==
    [passport |-> <<>>,
     national_id |-> <<>>,
     date |-> <<Hit(1, <<"0", "1", "/", "0", "2", "/", "2", "0", "1", "9">>),
                Hit(2, <<"0", "1", "/", "0", "2", "/", "2", "0", "1", "9">>),
                Hit(3, <<"0", "1", "/", "0", "2", "/", "2", "0", "1", "9">>),
                Hit(6, <<"0", "1", "/", "0", "2", "/", "2", "0", "1", "9">>)>>,
     name |-> <<Hit(1, <<"O", "S", "M", "A", "N", " ", "A", "B", "D", "A", "L", "L", "A", " ", "I", "B", "R", "A", "H", "I", "M">>),
                Hit(2, <<"O", "S", "M", "A", "N", " ", "A", "B", "D", "A", "L", "L", "A", " ", "I", "B", "R", "A", "H", "I", "M", " ", "S">>),
                Hit(3, <<"O", "S", "M", "A", "N", " ", "A", "B", "D", "A", "L", "L", "A", " ", "I", "B", "R", "A", "H", "I", "M", " ", "S">>),
                Hit(5, <<"A", "B", "D", "A", "L", "L", "A", " ">>),
                Hit(6, <<"O", "S", "M", "A", "N", " ", "A", "B", "D", "A", "L", "L", "A", " ", "I", "B", "R", "A", "H", "I", "M", " ", "S">>)>>,
     sex |-> <<Hit(1, <<"/">>),
               Hit(2, <<"M">>),
               Hit(3, <<"M">>)>>,
     places |-> <<>>,
     indicators |-> <<>>]

Obs_full == Observation(<<"g", "r", "a", "y", "s", "c", "a", "l", "e", "_", "s", "t", "a", "n", "d", "a", "r", "d">>, Text_full)

Obs_ocr == Observation(<<"o", "t", "s", "u", "_", "s", "p", "a", "r", "s", "e", "_", "t", "e", "x", "t">>, Text_ocr)

Obs_noise == Observation(<<"g", "r", "a", "y", "s", "c", "a", "l", "e", "_", "e", "n", "g", "_", "l", "a", "n", "g">>, Text_noise)

Obs_name == Observation(<<"c", "l", "a", "h", "e", "_", "u", "n", "i", "f", "o", "r", "m", "_", "b", "l", "o", "c", "k">>, Text_name)

Obs_sudan == Observation(<<"g", "r", "a", "y", "s", "c", "a", "l", "e", "_", "r", "e", "g", "i", "o", "n", "_", "t", "o", "p", "_", "r", "i", "g", "h", "t">>, Text_sudan)

Obs_bad == Observation(<<"d", "e", "n", "o", "i", "s", "e", "d", "_", "s", "i", "n", "g", "l", "e", "_", "l", "i", "n", "e">>, Text_bad)

Obs_id == Observation(<<"s", "h", "a", "r", "p", "e", "n", "e", "d", "_", "h", "i", "g", "h", "_", "c", "o", "n", "f", "i", "d", "e", "n", "c", "e">>, Text_id)

Obs_most == Observation(<<"u", "p", "s", "c", "a", "l", "e", "d", "_", "s", "i", "n", "g", "l", "e", "_", "c", "o", "l", "u", "m", "n">>, Text_most)

Obs_one == Observation(<<"a", "d", "a", "p", "t", "i", "v", "e", "_", "d", "i", "g", "i", "t", "s">>, Text_one)

Obs_conf == Observation(<<"u", "l", "t", "r", "a", "_", "e", "n", "h", "a", "n", "c", "e", "d", "_", "h", "i", "g", "h", "_", "c", "o", "n", "f", "i", "d", "e", "n", "c", "e">>, Text_conf)

SampleObservations ==
    {Obs_full, Obs_ocr, Obs_noise, Obs_name,
     Obs_sudan, Obs_bad, Obs_id, Obs_most, Obs_one, Obs_conf}


(***************************************************************************)
(* The orchestrator's full verification flow: verify_passport              *)
(* (app.py:425-517) and verify_complete (app.py:519-615).                  *)
(***************************************************************************)
Endpoints == {"verify_passport", "verify_complete"}

\* crops of document faces, as the engines see them
Crop_front == Image(FALSE, TRUE, << Face(<<25, 0>>, 9000) >>, TRUE, << <<0, 0>> >>)

Crop_side == Image(FALSE, TRUE, << Face(<<15, 20>>, 9500) >>, TRUE, << <<3000, 4000>> >>)

Crop_faint == Image(FALSE, TRUE, <<>>, TRUE, << <<6000, 0>> >>)

SampleDocuments ==
    { Document(FALSE, TRUE, << DocFace(<<25, 0>>, 9000, Crop_front) >>, <<>>),
      Document(FALSE, TRUE, << DocFace(<<-7, 24>>, 7000, Crop_faint),
                               DocFace(<<15, 20>>, 9500, Crop_side) >>,
               << Box(40, 40, Crop_front) >>),
      Document(FALSE, TRUE, <<>>, << Box(40, 40, Crop_faint), Box(60, 50, Crop_side) >>),
      Document(FALSE, TRUE, <<>>, <<>>),
      Document(FALSE, FALSE, <<>>, << Box(40, 40, Crop_front) >>) }

\* decodable selfies: a live one, a flat one of the same person, one on the
\* liveness boundary, one the engine finds no face in, one the engine fails on
SampleSelfies ==
    { Measured(Image(FALSE, TRUE, << Face(<<24, 7>>, 9000) >>, TRUE, << <<0, 0>> >>),
               1200, 100, 60, 300),
      Measured(Image(FALSE, TRUE, << Face(<<24, 7>>, 9000) >>, TRUE, << <<0, 0>> >>),
               500, 50, 50, 51),
      Measured(Image(FALSE, TRUE, << Face(<<-7, 24>>, 7000) >>, TRUE, << <<6000, 8000>> >>),
               1000, 100, 50, 51),
      Measured(Image(FALSE, TRUE, <<>>, TRUE, << <<3000, 4000>> >>),
               1200, 100, 60, 300),
      Measured(Image(FALSE, FALSE, <<>>, TRUE, << <<0, 0>> >>),
               1200, 100, 60, 300) }

\* what OCR can read off the preprocessed variants of a document
SampleReadings == { <<>>, <<Obs_full>>, <<Obs_most>>, <<Obs_ocr>>, <<Obs_sudan, Obs_id>> }

\* an uploaded image: whether its base64 text decodes, and the image
\* cv2.imdecode makes of the bytes (None when they are not an image)
PassportInput(b64, doc) == [base64_ok |-> b64, image |-> doc]

SelfieInput(b64, img) == [base64_ok |-> b64, image |-> img]

Request(fields, passport, selfie) ==
    [fields |-> fields, passport_image |-> passport, selfie_image |-> selfie]

NoRequest ==
    Request("missing", PassportInput(FALSE, NoneDocument), SelfieInput(FALSE, NoneImage))

PassportInputs(e) ==
    {PassportInput(TRUE, d) : d \in SampleDocuments \cup {NoneDocument}}
        \cup (IF e = "verify_passport" THEN {PassportInput(FALSE, NoneDocument)} ELSE {})

SelfieInputs(e) ==
    {SelfieInput(TRUE, i) : i \in SampleSelfies \cup {NoneImage}}
        \cup (IF e = "verify_passport" THEN {SelfieInput(FALSE, NoneImage)} ELSE {})

\* the requests an endpoint can receive
Requests(e) ==
    {Request("present", p, s) : p \in PassportInputs(e), s \in SelfieInputs(e)}
        \cup {NoRequest}
        \cup (IF e = "verify_complete"
              THEN {Request("unnamed", PassportInput(FALSE, NoneDocument),
                            SelfieInput(FALSE, NoneImage))}
              ELSE {})

\* app.py:187-195
InitialStats ==
    [total_requests |-> 0, successful_extractions |-> 0, failed_extractions |-> 0,
     face_verifications |-> 0, successful_verifications |-> 0, average_accuracy |-> 0]

\* ocr_result before OCR has run
NoOcr == [computed |-> FALSE]

\* a response: the HTTP code, the keys of the JSON body and their values
NoResponse ==
    [code |-> 0, keys |-> {}, success |-> FALSE, error |-> NoError,
     ocr_data |-> NoOcr, status |-> "NONE", ocr_score |-> 0, face_match |-> FALSE,
     liveness_check |-> FALSE, verified |-> FALSE, confidence |-> 0,
     liveness_score |-> 0, liveness_passed |-> FALSE]

\* the 400 answer to a request without both images
RejectResponse(message) ==
    [NoResponse EXCEPT !.code = 400, !.keys = {"error"}, !.error = message]

\* the except handler: 500 with str(e)
ErrorResponse(message) ==
    [NoResponse EXCEPT !.code = 500, !.keys = {"success", "error"},
                       !.success = FALSE, !.error = message]

\* a faulty variant of the answer below: without the OCR result
NoFaceResponse_WithoutOcr(ocr_result) ==
    [NoResponse EXCEPT !.code = 400, !.keys = {"success", "error"},
                       !.success = FALSE, !.error = "No face detected in passport"]

\* the 400 answer when the document shows no face
NoFaceResponse(ocr_result) ==
    [NoResponse EXCEPT !.code = 400, !.keys = {"success", "error", "ocr_data"},
                       !.success = FALSE, !.error = "No face detected in passport",
                       !.ocr_data = ocr_result]

\* a faulty variant of the test below: it never fires
NoFaceDetected_Never(face) == FALSE

\* face_img is None
NoFaceDetected(face) == ~face.found

\* the checks and decodings of verify_passport before preprocessing
verify_passport_inputs(req) ==
    IF req.fields # "present" THEN [at |-> "reject", message |-> "Passport and selfie images required"]
    ELSE IF ~req.passport_image.base64_ok THEN [at |-> "raise", message |-> "Incorrect padding"]
    ELSE IF ~req.selfie_image.base64_ok THEN [at |-> "raise", message |-> "Incorrect padding"]
    ELSE [at |-> "process", message |-> NoError]

\* the checks of verify_complete before preprocessing
verify_complete_inputs(req) ==
    IF req.fields = "missing" THEN [at |-> "reject", message |-> "Both passport and selfie files required"]
    ELSE IF req.fields = "unnamed" THEN [at |-> "reject", message |-> "No files selected"]
    ELSE [at |-> "process", message |-> NoError]

\* preprocessor.process raises when the bytes are not an image
ProcessRaises(passport) == passport.image.isNone

\* verify_passport: complete_result['overall_verified']
verify_passport_overall(verification_result, ocr_result) ==
    verification_result.verified /\ ocr_result.extraction_score > 700

\* verify_complete: the condition of 'status'
verify_complete_overall(verification_result, ocr_result) ==
    verification_result.verified /\ ocr_result.extraction_score > 700

OverallVerified(e, verification_result, ocr_result) ==
    IF e = "verify_passport"
    THEN verify_passport_overall(verification_result, ocr_result)
    ELSE verify_complete_overall(verification_result, ocr_result)

\* liveness_score >= config['liveness']['min_score']
LivenessPassed(liveness_score) == liveness_score >= LivenessMinScore

\* the 200 answer of the decision step
DecisionResponse(e, ocr_result, verification_result, liveness_score) ==
    [NoResponse EXCEPT
        !.code = 200,
        !.keys = {"success", "passport_data", "face_verification",
                  "overall_verification", "extracted_face", "result_file"},
        !.success = TRUE,
        !.verified = verification_result.verified,
        !.confidence = verification_result.confidence,
        !.liveness_score = liveness_score,
        !.liveness_passed = LivenessPassed(liveness_score),
        !.status = IF OverallVerified(e, verification_result, ocr_result)
                   THEN "VERIFIED" ELSE "FAILED",
        !.ocr_score = ocr_result.extraction_score,
        !.face_match = verification_result.verified,
        !.liveness_check = LivenessPassed(liveness_score)]

\* the statistics updates of the decision step
DecisionStats(stats, ocr_result, verification_result) ==
    [stats EXCEPT
        !.successful_extractions =
            IF ocr_result.extraction_score > 0 THEN @ + 1 ELSE @,
        !.successful_verifications =
            IF verification_result.verified THEN @ + 1 ELSE @,
        !.face_verifications = @ + 1]

\* the order of the steps of one request
StepOrder ==
    <<"preprocess", "ocr", "face_extraction", "face_verification", "liveness",
      "decision">>

(***************************************************************************)
(* State.                                                                  *)
(*   vf_*  : one evaluation context of verify_faces (its three arguments,  *)
(*           the outcome of the call as the orchestrator makes it, and the *)
(*           outcomes of the two-argument call in both argument orders)    *)
(*   all_texts, data, epc : one run of extract: the collected              *)
(*           observations, the shared result record the extractors mutate, *)
(*           and the position in _smart_field_extraction / extract;        *)
(*           returned holds what the earlier calls of extract on the same  *)
(*           observations returned                                         *)
(*   flow    the request being served by verify_passport / verify_complete *)
(*           (endpoint, req), its position (pc), the handler's locals      *)
(*           (ocr_result, face, verification_result, liveness_score), the  *)
(*           answer sent (response), the steps run so far (trace), whether *)
(*           the result file was written (saved), and the global stats     *)
(*   threads the server threads serving /extract at the same time, each    *)
(*           with its request, its position and its locals; they share     *)
(*           stats                                                         *)
(*   variants, vi, run, results, all_extracted_texts : the collection loop *)
(*           of extract: the preprocessed variants with what the engine    *)
(*           does on each, the variant and the engine run the loop is at,  *)
(*           the list _multi_pass_extraction is building, and the          *)
(*           observations collected so far                                 *)
(***************************************************************************)
VARIABLES vf_id, vf_selfie, vf_meta, vf_out, vf_ab, vf_ba,
          all_texts, data, epc, returned,
          endpoint, req, pc, ocr_result, face, verification_result,
          liveness_score, response, trace, stats, saved,
          threads, threaded,
          variants, vi, run, results, all_extracted_texts,
          pvr

vfVars == <<vf_id, vf_selfie, vf_meta, vf_out, vf_ab, vf_ba>>

exVars == <<all_texts, data, epc, returned>>

reqVars == <<endpoint, req, pc, ocr_result, face, verification_result,
             liveness_score, response, trace, saved>>

flowVars == <<reqVars, stats>>

agVars == <<variants, vi, run, results, all_extracted_texts>>

vars == <<vfVars, exVars, flowVars, threads, threaded, agVars, pvr>>

\* what the actions of one component leave alone
vfFrame == <<exVars, flowVars, threads, threaded, agVars, pvr>>

exFrame == <<vfVars, flowVars, threads, threaded, agVars, pvr>>

flowFrame == <<vfVars, exVars, threads, threaded, agVars, pvr>>

statsFrame == <<vfVars, exVars, reqVars, threaded, agVars, pvr>>

agFrame == <<vfVars, exVars, flowVars, threads, threaded, pvr>>

pvrFrame == <<vfVars, exVars, flowVars, threads, threaded, agVars>>

NotCalled == Returned(FaceVerificationResult(FALSE, 0, "not_called", NoError))

\* no verify_faces evaluation in progress
VerifyIdle ==
    /\ vf_id = NoneImage /\ vf_selfie = NoneImage /\ vf_meta = NoMetadata
    /\ vf_out = NotCalled /\ vf_ab = NotCalled /\ vf_ba = NotCalled

\* no extract run in progress
ExtractIdle == all_texts = <<>> /\ data = EmptyData /\ epc = "idle" /\ returned = <<>>

NoVerification == FaceVerificationResult(FALSE, 0, "not_called", NoError)

\* no request in progress and none served yet
FlowIdle ==
    /\ endpoint = "none"
    /\ req = NoRequest
    /\ pc = "IDLE"
    /\ ocr_result = NoOcr
    /\ face = NoFace
    /\ verification_result = NoVerification
    /\ liveness_score = 0
    /\ response = NoResponse
    /\ trace = <<>>
    /\ stats = InitialStats
    /\ saved = FALSE

\* no server thread is serving a request
ThreadsIdle == threads = <<>> /\ threaded = TRUE

\* no collection loop is running
AggregateIdle ==
    /\ variants = <<>> /\ vi = 0 /\ run = 0 /\ results = <<>>
    /\ all_extracted_texts = <<>>

\* no call of process_verification_request is running
PipelineIdle == pvr = <<>>

(***************************************************************************)
(* Specification SpecVerify: verify_faces applied to bounded inputs.       *)
(***************************************************************************)
VerifyInit ==
    /\ vf_id \in SampleImages \cup {NoneImage}
    /\ vf_selfie \in SampleImages \cup {NoneImage}
    /\ vf_meta \in SampleMetadata
    /\ vf_out = NotCalled
    /\ vf_ab = NotCalled
    /\ vf_ba = NotCalled
    /\ ExtractIdle
    /\ FlowIdle
    /\ ThreadsIdle
    /\ AggregateIdle
    /\ PipelineIdle

\* verify_faces(id_face, selfie_face, id_metadata)
VerifyCall ==
    /\ vf_out = NotCalled
    /\ vf_out' = verify_faces(vf_id, vf_selfie, vf_meta)
    /\ UNCHANGED <<vf_id, vf_selfie, vf_meta, vf_ab, vf_ba, vfFrame>>

\* verify_faces(a, b)
VerifyForward ==
    /\ vf_ab = NotCalled
    /\ vf_ab' = verify_faces(vf_id, vf_selfie, NoMetadata)
    /\ UNCHANGED <<vf_id, vf_selfie, vf_meta, vf_out, vf_ba, vfFrame>>

\* verify_faces(b, a)
VerifySwapped ==
    /\ vf_ba = NotCalled
    /\ vf_ba' = verify_faces(vf_selfie, vf_id, NoMetadata)
    /\ UNCHANGED <<vf_id, vf_selfie, vf_meta, vf_out, vf_ab, vfFrame>>

VerifyNext == VerifyCall \/ VerifyForward \/ VerifySwapped

SpecVerify == VerifyInit /\ [][VerifyNext]_vars

(***************************************************************************)
(* Specification SpecExtract: extract applied to bounded observation bags, *)
(* one action per extractor call, in the order of _smart_field_extraction. *)
(***************************************************************************)
\* the most observations in a bag
MaxObs == 2

\* the most calls of extract on one bag
MaxRuns == 2

ObservationBags == UNION { [1..n -> SampleObservations] : n \in 0..MaxObs }

ExtractInit ==
    /\ all_texts \in ObservationBags
    /\ data = EmptyData
    /\ epc = "passport_number"
    /\ returned = <<>>
    /\ VerifyIdle
    /\ FlowIdle
    /\ ThreadsIdle
    /\ AggregateIdle
    /\ PipelineIdle

ExtractPassportNumber ==
    /\ epc = "passport_number"
    /\ data' = _extract_passport_number(data, all_texts)
    /\ epc' = "national_id"
    /\ UNCHANGED <<all_texts, returned, exFrame>>

ExtractNationalId ==
    /\ epc = "national_id"
    /\ data' = _extract_national_id(data, all_texts)
    /\ epc' = "dates"
    /\ UNCHANGED <<all_texts, returned, exFrame>>

ExtractDates ==
    /\ epc = "dates"
    /\ data' = _extract_dates(data, all_texts)
    /\ epc' = "name"
    /\ UNCHANGED <<all_texts, returned, exFrame>>

ExtractName ==
    /\ epc = "name"
    /\ data' = _extract_name(data, all_texts)
    /\ epc' = "sex"
    /\ UNCHANGED <<all_texts, returned, exFrame>>

ExtractSex ==
    /\ epc = "sex"
    /\ data' = _extract_sex(data, all_texts)
    /\ epc' = "place_of_birth"
    /\ UNCHANGED <<all_texts, returned, exFrame>>

ExtractPlaceOfBirth ==
    /\ epc = "place_of_birth"
    /\ data' = _extract_place_of_birth(data, all_texts)
    /\ epc' = "nationality"
    /\ UNCHANGED <<all_texts, returned, exFrame>>

ExtractNationality ==
    /\ epc = "nationality"
    /\ data' = _extract_nationality(data, all_texts)
    /\ epc' = "score"
    /\ UNCHANGED <<all_texts, returned, exFrame>>

\* extract: extraction_score and extraction_summary over the finished field set
ExtractFinish ==
    /\ epc = "score"
    /\ data' = Finalize(data)
    /\ epc' = "done"
    /\ UNCHANGED <<all_texts, returned, exFrame>>

\* a faulty variant of the record below: the dict of the previous call
NewData_Reused(previous) == previous

\* the dict a call of _smart_field_extraction starts from: a new one, whatever
\* the previous call returned
NewData(previous) == EmptyData

\* extract is called again on the same observations
ExtractAgain ==
    /\ epc = "done"
    /\ Len(returned) + 1 < MaxRuns
    /\ returned' = Append(returned, data)
    /\ data' = NewData(data)
    /\ epc' = "passport_number"
    /\ UNCHANGED <<all_texts, exFrame>>

ExtractNext ==
    \/ ExtractPassportNumber \/ ExtractNationalId \/ ExtractDates
    \/ ExtractName \/ ExtractSex \/ ExtractPlaceOfBirth
    \/ ExtractNationality \/ ExtractFinish \/ ExtractAgain

SpecExtract == ExtractInit /\ [][ExtractNext]_vars

(***************************************************************************)
(* Specification SpecFlow: requests to verify_passport and verify_complete, *)
(* one action per step of the handler.  pc is the request's position:      *)
(* RECEIVED, PREPROCESSED, OCR_DONE, FACE_EXTRACTED, FACE_VERIFIED,        *)
(* LIVENESS_CHECKED, and the exits DECIDED (the 200 answer),               *)
(* FAILED_NO_FACE (the 400 no-face answer), REJECTED (the 400 answer to a  *)
(* request without both images), and for the except handler FAILED_DECODE  *)
(* (raised while decoding the inputs) or FAILED_ERROR (raised later).      *)
(***************************************************************************)
\* the most requests served
MaxRequests == 2

Ended == {"DECIDED", "FAILED_NO_FACE", "FAILED_DECODE", "FAILED_ERROR", "REJECTED"}

FlowInit ==
    /\ FlowIdle
    /\ VerifyIdle
    /\ ExtractIdle
    /\ ThreadsIdle
    /\ AggregateIdle
    /\ PipelineIdle

\* a request arrives: stats['total_requests'] += 1
Receive ==
    /\ pc \in Ended \cup {"IDLE"}
    /\ stats.total_requests < MaxRequests
    /\ \E e \in Endpoints :
         \E r \in Requests(e) :
            /\ endpoint' = e
            /\ req' = r
    /\ stats' = [stats EXCEPT !.total_requests = @ + 1]
    /\ pc' = "RECEIVED"
    /\ ocr_result' = NoOcr
    /\ face' = NoFace
    /\ verification_result' = NoVerification
    /\ liveness_score' = 0
    /\ response' = NoResponse
    /\ trace' = <<>>
    /\ saved' = FALSE
    /\ UNCHANGED flowFrame

\* the required-fields check, the decoding of the uploads, preprocessor.process
Preprocess ==
    /\ pc = "RECEIVED"
    /\ LET inputs == IF endpoint = "verify_passport"
                     THEN verify_passport_inputs(req)
                     ELSE verify_complete_inputs(req)
       IN  IF inputs.at = "reject"
           THEN /\ response' = RejectResponse(inputs.message)
                /\ pc' = "REJECTED"
                /\ trace' = trace
           ELSE IF inputs.at = "raise"
           THEN /\ response' = ErrorResponse(inputs.message)
                /\ pc' = "FAILED_DECODE"
                /\ trace' = trace
           ELSE IF ProcessRaises(req.passport_image)
           THEN /\ response' = ErrorResponse("Failed to decode image")
                /\ pc' = "FAILED_DECODE"
                /\ trace' = Append(trace, "preprocess")
           ELSE /\ response' = response
                /\ pc' = "PREPROCESSED"
                /\ trace' = Append(trace, "preprocess")
    /\ UNCHANGED <<endpoint, req, ocr_result, face, verification_result,
                   liveness_score, stats, saved, flowFrame>>

\* extractor.extract(preprocessed_images)
Ocr ==
    /\ pc = "PREPROCESSED"
    /\ \E reading \in SampleReadings : ocr_result' = extract(reading)
    /\ pc' = "OCR_DONE"
    /\ trace' = Append(trace, "ocr")
    /\ UNCHANGED <<endpoint, req, face, verification_result, liveness_score,
                   response, stats, saved, flowFrame>>

\* extract_face_from_document and the no-face exit
ExtractFace ==
    /\ pc = "OCR_DONE"
    /\ face' = extract_face_from_document(req.passport_image.image)
    /\ trace' = Append(trace, "face_extraction")
    /\ IF NoFaceDetected(face')
       THEN /\ response' = NoFaceResponse(ocr_result)
            /\ pc' = "FAILED_NO_FACE"
       ELSE /\ response' = response
            /\ pc' = "FACE_EXTRACTED"
    /\ UNCHANGED <<endpoint, req, ocr_result, verification_result, liveness_score,
                   stats, saved, flowFrame>>

\* verify_faces(face_img, selfie_img, face_metadata)
VerifyFaces ==
    /\ pc = "FACE_EXTRACTED"
    /\ trace' = Append(trace, "face_verification")
    /\ LET out == verify_faces(face.face_img, req.selfie_image.image, face.metadata)
       IN  IF out.raised
           THEN /\ response' = ErrorResponse(out.message)
                /\ pc' = "FAILED_ERROR"
                /\ verification_result' = verification_result
           ELSE /\ response' = response
                /\ pc' = "FACE_VERIFIED"
                /\ verification_result' = out.result
    /\ UNCHANGED <<endpoint, req, ocr_result, face, liveness_score, stats, saved,
                   flowFrame>>

\* check_liveness(selfie_img)
CheckLiveness ==
    /\ pc = "FACE_VERIFIED"
    /\ trace' = Append(trace, "liveness")
    /\ LET out == check_liveness(req.selfie_image.image)
       IN  IF out.raised
           THEN /\ response' = ErrorResponse(out.message)
                /\ pc' = "FAILED_ERROR"
                /\ liveness_score' = liveness_score
           ELSE /\ response' = response
                /\ pc' = "LIVENESS_CHECKED"
                /\ liveness_score' = out.score
    /\ UNCHANGED <<endpoint, req, ocr_result, face, verification_result, stats,
                   saved, flowFrame>>

\* the statistics, the saved result file (the write can fail) and the answer
Decide ==
    /\ pc = "LIVENESS_CHECKED"
    /\ trace' = Append(trace, "decision")
    /\ stats' = DecisionStats(stats, ocr_result, verification_result)
    /\ \E written \in BOOLEAN :
         /\ saved' = written
         /\ IF written
            THEN /\ response' = DecisionResponse(endpoint, ocr_result,
                                                 verification_result, liveness_score)
                 /\ pc' = "DECIDED"
            ELSE /\ response' = ErrorResponse("cannot write result file")
                 /\ pc' = "FAILED_ERROR"
    /\ UNCHANGED <<endpoint, req, ocr_result, face, verification_result,
                   liveness_score, flowFrame>>

FlowNext ==
    \/ Receive \/ Preprocess \/ Ocr \/ ExtractFace
    \/ VerifyFaces \/ CheckLiveness \/ Decide

SpecFlow == FlowInit /\ [][FlowNext]_vars

(***************************************************************************)
(* Specification SpecStats: the handlers of app.py that touch the shared   *)
(* dictionary stats, served by several threads of the development server   *)
(* (app.run serves each request in its own thread unless threaded is       *)
(* switched off, and nothing in app.py locks stats).  stats[k] += 1 loads  *)
(* stats[k], adds one and stores the sum: the load and the store are       *)
(* separate steps, and another thread can run between them.  at is the     *)
(* statement a thread is at, loaded whether it has loaded the counter of   *)
(* that statement, tmp the value loaded; total and current_avg are the     *)
(* handler's locals, seen is the dictionary get_stats has serialised.      *)
(* extract_file has the statements of extract, and verify_complete those   *)
(* of verify_passport, so one route stands for each pair.                  *)
(* average_accuracy is kept in tenths of a percent, rounded down.          *)
(***************************************************************************)
\* the most threads serving at once
MaxThreads == 2

\* a request: its route, whether the body has the image(s), whether
\* decoding, preprocessing, extraction or verification raises, whether a
\* face is found in the passport, the score of the extraction, whether the
\* faces verify, and whether the result file can be written
Job(route, has_image, raises, face_found, extraction_score, verified, writable) ==
    [route |-> route, has_image |-> has_image, raises |-> raises,
     face_found |-> face_found, extraction_score |-> extraction_score,
     verified |-> verified, writable |-> writable]

SampleJobs ==
    {Job("extract", FALSE, FALSE, FALSE, 0, FALSE, TRUE),
     Job("extract", TRUE, TRUE, FALSE, 0, FALSE, TRUE),
     Job("extract", TRUE, FALSE, FALSE, 0, FALSE, TRUE),
     Job("extract", TRUE, FALSE, FALSE, 875, FALSE, TRUE),
     Job("extract", TRUE, FALSE, FALSE, 875, FALSE, FALSE),
     Job("verify_passport", FALSE, FALSE, FALSE, 0, FALSE, TRUE),
     Job("verify_passport", TRUE, TRUE, FALSE, 0, FALSE, TRUE),
     Job("verify_passport", TRUE, FALSE, FALSE, 500, FALSE, TRUE),
     Job("verify_passport", TRUE, FALSE, TRUE, 500, TRUE, TRUE),
     Job("verify_passport", TRUE, FALSE, TRUE, 0, TRUE, TRUE),
     Job("verify_passport", TRUE, FALSE, TRUE, 500, FALSE, TRUE),
     Job("verify_passport", TRUE, FALSE, TRUE, 500, TRUE, FALSE),
     Job("verify_faces", FALSE, FALSE, FALSE, 0, FALSE, TRUE),
     Job("verify_faces", TRUE, TRUE, FALSE, 0, FALSE, TRUE),
     Job("verify_faces", TRUE, FALSE, TRUE, 0, TRUE, TRUE),
     Job("verify_faces", TRUE, FALSE, TRUE, 0, FALSE, TRUE),
     Job("stats", FALSE, FALSE, FALSE, 0, FALSE, TRUE)}

\* a thread entering the handler of its request
Thread(job) ==
    [job |-> job,
     at |-> IF job.route = "stats" THEN "get_stats" ELSE "total_requests",
     loaded |-> FALSE, tmp |-> 0,
     total |-> 0, current_avg |-> 0, code |-> 0, seen |-> InitialStats]

StatsInit ==
    /\ threads \in [1..MaxThreads -> {Thread(j) : j \in SampleJobs}]
    /\ threaded \in BOOLEAN
    /\ AggregateIdle
    /\ PipelineIdle
    /\ FlowIdle
    /\ VerifyIdle
    /\ ExtractIdle

\* thread t is between the first statement of its handler and its answer
InFlight(t) == threads[t] # Thread(threads[t].job) /\ threads[t].at # "done"

\* the server lets thread t take a step: always when it serves each request
\* in a thread of its own, and otherwise only when no other request is
\* being served
CanRun(t) == threaded \/ \A u \in DOMAIN threads \ {t} : ~InFlight(u)

\* the counter the statement at a position increments
CounterAt ==
    [total_requests |-> "total_requests",
     successful_extractions |-> "successful_extractions",
     failed_extractions |-> "failed_extractions",
     except |-> "failed_extractions",
     vp_successful_extractions |-> "successful_extractions",
     vp_successful_verifications |-> "successful_verifications",
     vp_face_verifications |-> "face_verifications",
     vf_face_verifications |-> "face_verifications",
     vf_successful_verifications |-> "successful_verifications"]

\* the position of a thread after the increment it is at
AfterIncrement(th) ==
    CASE th.at = "total_requests" ->
             IF th.job.route = "verify_faces" THEN "vf_face_verifications"
             ELSE "process"
      [] th.at = "successful_extractions" -> "total"
      [] th.at = "failed_extractions" -> "save"
      [] th.at = "except" -> "respond_500"
      [] th.at = "vp_successful_extractions" ->
             IF th.job.verified THEN "vp_successful_verifications"
             ELSE "vp_face_verifications"
      [] th.at = "vp_successful_verifications" -> "vp_face_verifications"
      [] th.at = "vp_face_verifications" -> "save"
      [] th.at = "vf_face_verifications" -> "process"
      [] th.at = "vf_successful_verifications" -> "respond_200"

\* stats[k] += 1, first half: load stats[k]
LoadCounter ==
    \E t \in DOMAIN threads :
        /\ CanRun(t)
        /\ threads[t].at \in DOMAIN CounterAt
        /\ ~threads[t].loaded
        /\ threads' = [threads EXCEPT
                         ![t].tmp = stats[CounterAt[threads[t].at]],
                         ![t].loaded = TRUE]
        /\ UNCHANGED <<stats, statsFrame>>

\* stats[k] += 1, second half: store the loaded value plus one
StoreCounter ==
    \E t \in DOMAIN threads :
        /\ CanRun(t)
        /\ threads[t].at \in DOMAIN CounterAt
        /\ threads[t].loaded
        /\ stats' = [stats EXCEPT ![CounterAt[threads[t].at]] = threads[t].tmp + 1]
        /\ threads' = [threads EXCEPT ![t].at = AfterIncrement(threads[t]),
                                      ![t].loaded = FALSE]
        /\ UNCHANGED statsFrame

\* the position after the try body's work up to the statistics: extract from
\* get_json to extractor.extract and the test of the score, verify_passport
\* from get_json to check_liveness and the tests of the score and of the
\* verdict, verify_faces from get_json to the test of the verdict
AfterProcess(job) ==
    IF ~job.has_image THEN "done"
    ELSE IF job.raises
         THEN (IF job.route = "extract" THEN "except" ELSE "respond_500")
    ELSE IF job.route = "extract"
         THEN (IF job.extraction_score > 0 THEN "successful_extractions"
               ELSE "failed_extractions")
    ELSE IF job.route = "verify_faces"
         THEN (IF job.verified THEN "vf_successful_verifications"
               ELSE "respond_200")
    ELSE IF ~job.face_found THEN "done"
    ELSE IF job.extraction_score > 0 THEN "vp_successful_extractions"
    ELSE IF job.verified THEN "vp_successful_verifications"
    ELSE "vp_face_verifications"

\* the try body up to the statistics, and the 400 answers
Process ==
    \E t \in DOMAIN threads :
        /\ CanRun(t)
        /\ threads[t].at = "process"
        /\ threads' = [threads EXCEPT
                         ![t].at = AfterProcess(threads[t].job),
                         ![t].code = IF AfterProcess(threads[t].job) = "done"
                                     THEN 400 ELSE @]
        /\ UNCHANGED <<stats, statsFrame>>

\* total = stats['successful_extractions']
ReadTotal ==
    \E t \in DOMAIN threads :
        /\ CanRun(t)
        /\ threads[t].at = "total"
        /\ threads' = [threads EXCEPT ![t].total = stats.successful_extractions,
                                      ![t].at = "current_avg"]
        /\ UNCHANGED <<stats, statsFrame>>

\* current_avg = stats['average_accuracy']
ReadAverage ==
    \E t \in DOMAIN threads :
        /\ CanRun(t)
        /\ threads[t].at = "current_avg"
        /\ threads' = [threads EXCEPT ![t].current_avg = stats.average_accuracy,
                                      ![t].at = "average_accuracy"]
        /\ UNCHANGED <<stats, statsFrame>>

\* stats['average_accuracy'] = ((current_avg * (total - 1)) + score) / total
WriteAverage ==
    \E t \in DOMAIN threads :
        /\ CanRun(t)
        /\ threads[t].at = "average_accuracy"
        /\ stats' = [stats EXCEPT !.average_accuracy =
                        ((threads[t].current_avg * (threads[t].total - 1))
                            + threads[t].job.extraction_score) \div threads[t].total]
        /\ threads' = [threads EXCEPT ![t].at = "save"]
        /\ UNCHANGED statsFrame

\* the result file is written and the 200 answer sent, or the write raises:
\* extract's handler then counts a failure, verify_passport's only answers
Save ==
    \E t \in DOMAIN threads :
        /\ CanRun(t)
        /\ threads[t].at = "save"
        /\ threads' = [threads EXCEPT
                         ![t].at = IF threads[t].job.writable THEN "done"
                                   ELSE IF threads[t].job.route = "extract"
                                        THEN "except"
                                        ELSE "respond_500",
                         ![t].code = IF threads[t].job.writable THEN 200 ELSE @]
        /\ UNCHANGED <<stats, statsFrame>>

\* verify_faces' answer after the try body
Respond200 ==
    \E t \in DOMAIN threads :
        /\ CanRun(t)
        /\ threads[t].at = "respond_200"
        /\ threads' = [threads EXCEPT ![t].at = "done", ![t].code = 200]
        /\ UNCHANGED <<stats, statsFrame>>

\* the except handler's answer
Respond500 ==
    \E t \in DOMAIN threads :
        /\ CanRun(t)
        /\ threads[t].at = "respond_500"
        /\ threads' = [threads EXCEPT ![t].at = "done", ![t].code = 500]
        /\ UNCHANGED <<stats, statsFrame>>

\* get_stats: return jsonify(stats)
GetStats ==
    \E t \in DOMAIN threads :
        /\ CanRun(t)
        /\ threads[t].at = "get_stats"
        /\ threads' = [threads EXCEPT ![t].seen = stats, ![t].at = "done",
                                      ![t].code = 200]
        /\ UNCHANGED <<stats, statsFrame>>

StatsNext ==
    \/ LoadCounter \/ StoreCounter \/ Process \/ ReadTotal \/ ReadAverage
    \/ WriteAverage \/ Save \/ Respond200 \/ Respond500 \/ GetStats

SpecStats == StatsInit /\ [][StatsNext]_vars

(***************************************************************************)
(* Specification SpecAggregate: the collection loop of extract             *)
(* (extractor.py:30-39) over the preprocessed variants, with               *)
(* _multi_pass_extraction and _extract_from_regions run by run: the five   *)
(* page-segmentation configurations, the two languages, the                *)
(* high-confidence pass and the three regions.  A variant is known by its  *)
(* name and by what the engine does on each run: it raises, or it returns  *)
(* a text (for image_to_data, words with their confidences).               *)
(***************************************************************************)
\* the most variants preprocessing hands over
MaxVariants == 2

\* self.config.get('confidence_threshold', 60)
confidence_threshold == 60

\* the names of the configurations, languages and regions, in running order
config_names ==
    << <<"s", "t", "a", "n", "d", "a", "r", "d">>,
       <<"s", "i", "n", "g", "l", "e", "_", "c", "o", "l", "u", "m", "n">>,
       <<"u", "n", "i", "f", "o", "r", "m", "_", "b", "l", "o", "c", "k">>,
       <<"s", "i", "n", "g", "l", "e", "_", "l", "i", "n", "e">>,
       <<"s", "p", "a", "r", "s", "e", "_", "t", "e", "x", "t">> >>

lang_methods == << <<"e", "n", "g", "_", "l", "a", "n", "g">>, <<"a", "r", "a", "_", "l", "a", "n", "g">> >>

region_methods ==
    << <<"r", "e", "g", "i", "o", "n", "_", "t", "o", "p", "_", "r", "i", "g", "h", "t">>,
       <<"r", "e", "g", "i", "o", "n", "_", "c", "e", "n", "t", "e", "r">>,
       <<"r", "e", "g", "i", "o", "n", "_", "b", "o", "t", "t", "o", "m">> >>

Str_high_confidence == <<"h", "i", "g", "h", "_", "c", "o", "n", "f", "i", "d", "e", "n", "c", "e">>

\* the first keys of the dict preprocessor.process builds
variant_names == << <<"g", "r", "a", "y", "s", "c", "a", "l", "e">>, <<"u", "p", "s", "c", "a", "l", "e", "d">>, <<"c", "l", "a", "h", "e">> >>

\* what one engine call does
Said(text) == [raises |-> FALSE, text |-> text, words |-> <<>>]

Failed == [raises |-> TRUE, text |-> <<>>, words |-> <<>>]

\* image_to_data: the words with their confidences
Word(conf, text) == [conf |-> conf, text |-> text]

Data(words) == [raises |-> FALSE, text |-> <<>>, words |-> words]

\* what the engine does on the eleven runs over one variant
Engine(config, lang, image_data, region) ==
    [config |-> config, lang |-> lang, data |-> image_data, region |-> region]

\* an engine that reads every run; one that fails on every run; one that
\* returns blanks; one that fails, returns blanks and reads in turn; one that
\* fails until the last region
SampleEngines ==
    { Engine(<<Said(<<"P", "1">>), Said(<<"A", " ", "B">>), Said(<<"A">>),
               Said(<<"B">>), Said(<<"P", "1">>)>>,
             <<Said(<<"A">>), Said(<<"u0645">>)>>,
             Data(<<Word(95, <<"A">>), Word(61, <<"B">>)>>),
             <<Said(<<"A">>), Said(<<"B">>), Said(<<"P", "1">>)>>),
      Engine(<<Failed, Failed, Failed, Failed, Failed>>, <<Failed, Failed>>, Failed,
             <<Failed, Failed, Failed>>),
      Engine(<<Said(<<>>), Said(<<" ">>), Said(<<"\n">>), Said(<<" ", "\n">>),
               Said(<<"\t">>)>>,
             <<Said(<<>>), Said(<<" ">>)>>,
             Data(<<Word(95, <<" ">>), Word(60, <<"A">>), Word(-1, <<>>)>>),
             <<Said(<<"\n">>), Said(<<>>), Said(<<" ">>)>>),
      Engine(<<Failed, Said(<<" ", "\n">>), Said(<<" ", "A", "\n">>), Failed,
               Said(<<>>)>>,
             <<Failed, Said(<<"u0645">>)>>,
             Data(<<Word(95, <<"A">>), Word(30, <<"B">>), Word(96, <<" ">>),
                    Word(61, <<"P", "1">>)>>),
             <<Said(<<" ">>), Failed, Said(<<"P", "1">>)>>),
      Engine(<<Failed, Failed, Failed, Failed, Failed>>, <<Failed, Failed>>, Failed,
             <<Failed, Failed, Said(<<"A">>)>>) }

\* ' '.join(words)
RECURSIVE Join(_)
Join(words) ==
    IF words = <<>> THEN <<>>
    ELSE IF Len(words) = 1 THEN words[1]
    ELSE words[1] \o <<" ">> \o Join(Tail(words))

\* a faulty variant of the step below: blank text is kept
Contribution_KeepsBlank(method, outcome) ==
    IF outcome.raises THEN <<>> ELSE <<[method |-> method, text |-> outcome.text]>>

\* try: text = image_to_string(...); if text.strip(): results.append(...);
\* except: nothing is appended
Contribution(method, outcome) ==
    IF outcome.raises THEN <<>>
    ELSE IF Strip(outcome.text) # <<>>
    THEN <<[method |-> method, text |-> outcome.text]>>
    ELSE <<>>

\* high_conf_text: the words above the threshold that are not blank
high_conf_text(words) ==
    LET kept == SelectSeq(words, LAMBDA w :
                    w.conf > confidence_threshold /\ Strip(w.text) # <<>>)
    IN  [k \in 1..Len(kept) |-> kept[k].text]

\* the high-confidence pass
HighConfidenceContribution(outcome) ==
    IF outcome.raises THEN <<>>
    ELSE IF high_conf_text(outcome.words) # <<>>
    THEN <<[method |-> Str_high_confidence,
            text |-> Join(high_conf_text(outcome.words))]>>
    ELSE <<>>

\* source_name = f"{preprocess_name}_{ocr_method}"
source_name(preprocess_name, ocr_method) == preprocess_name \o <<"_">> \o ocr_method

AggregateInit ==
    /\ \E n \in 1..MaxVariants :
          \E engines \in [1..n -> SampleEngines] :
             variants = [k \in 1..n |-> [name |-> variant_names[k],
                                         engine |-> engines[k]]]
    /\ vi = 1
    /\ run = 1
    /\ results = <<>>
    /\ all_extracted_texts = <<>>
    /\ VerifyIdle
    /\ ExtractIdle
    /\ FlowIdle
    /\ ThreadsIdle
    /\ PipelineIdle

\* one pass of the loop over configs
OcrConfig ==
    /\ vi <= Len(variants)
    /\ run \in 1..5
    /\ results' = results \o Contribution(config_names[run],
                                          variants[vi].engine.config[run])
    /\ run' = run + 1
    /\ UNCHANGED <<variants, vi, all_extracted_texts, agFrame>>

\* one pass of the loop over the languages
OcrLanguage ==
    /\ vi <= Len(variants)
    /\ run \in 6..7
    /\ results' = results \o Contribution(lang_methods[run - 5],
                                          variants[vi].engine.lang[run - 5])
    /\ run' = run + 1
    /\ UNCHANGED <<variants, vi, all_extracted_texts, agFrame>>

\* the high-confidence pass
OcrHighConfidence ==
    /\ vi <= Len(variants)
    /\ run = 8
    /\ results' = results \o HighConfidenceContribution(variants[vi].engine.data)
    /\ run' = run + 1
    /\ UNCHANGED <<variants, vi, all_extracted_texts, agFrame>>

\* one pass of the loop of _extract_from_regions
OcrRegion ==
    /\ vi <= Len(variants)
    /\ run \in 9..11
    /\ results' = results \o Contribution(region_methods[run - 8],
                                          variants[vi].engine.region[run - 8])
    /\ run' = run + 1
    /\ UNCHANGED <<variants, vi, all_extracted_texts, agFrame>>

\* the texts of the variant are appended under their source names
CollectVariant ==
    /\ vi <= Len(variants)
    /\ run = 12
    /\ all_extracted_texts' =
          all_extracted_texts \o
              [k \in 1..Len(results) |->
                  Observation(source_name(variants[vi].name, results[k].method),
                              results[k].text)]
    /\ vi' = vi + 1
    /\ run' = 1
    /\ results' = <<>>
    /\ UNCHANGED <<variants, agFrame>>

AggregateNext ==
    \/ OcrConfig \/ OcrLanguage \/ OcrHighConfidence \/ OcrRegion \/ CollectVariant

SpecAggregate == AggregateInit /\ [][AggregateNext]_vars

(***************************************************************************)
(* Specification SpecPipeline: FaceProcessor.process_verification_request  *)
(* (face_processor.py:411-493) applied to bounded inputs.  pvr holds the   *)
(* call: its arguments, the configured liveness switch, its locals and the *)
(* results dictionary it returns; calls lists the methods it has invoked.  *)
(* verification is None until results["verification"] is assigned: the     *)
(* field reported tells whether it has been.                               *)
(***************************************************************************)
\* results as process_verification_request initialises it
InitialResults ==
    [success |-> FALSE, reported |-> FALSE, verified |-> FALSE, confidence |-> 0,
     method |-> "none", liveness_score |-> 0, document_face |-> FALSE,
     errors |-> <<>>]

\* the documents and selfies the call is given: arrays, and paths that
\* cv2.imread cannot read
PipelineDocuments == SampleDocuments \cup {NoneDocument}

PipelineSelfies == SampleSelfies \cup {NoneImage}

PipelineInit ==
    /\ \E d \in PipelineDocuments, s \in PipelineSelfies, enabled \in BOOLEAN :
         pvr = [document_img |-> d, selfie_img |-> s, liveness_enabled |-> enabled,
                at |-> "load", id_face |-> NoFace, verification |-> NoVerification,
                liveness_score |-> 0, calls |-> <<>>, results |-> InitialResults]
    /\ AggregateIdle
    /\ FlowIdle
    /\ VerifyIdle
    /\ ExtractIdle
    /\ ThreadsIdle

\* a faulty variant of the test below: no score fails
liveness_failed_Never(score) == FALSE

\* liveness_score < self.config["liveness"]["min_score"]
liveness_failed(score) == score < LivenessMinScore

\* the images are loaded; a missing one ends the call
LoadImages ==
    /\ pvr # <<>> /\ pvr.at = "load"
    /\ pvr' = IF pvr.document_img.isNone \/ pvr.selfie_img.isNone
              THEN [pvr EXCEPT !.results.errors =
                                   Append(@, "Failed to load one or more images"),
                               !.at = "returned"]
              ELSE [pvr EXCEPT !.at = "extract"]
    /\ UNCHANGED pvrFrame

\* extract_face_from_document and the no-face exit
PipelineExtractFace ==
    /\ pvr # <<>> /\ pvr.at = "extract"
    /\ LET id_face == extract_face_from_document(pvr.document_img)
           called == Append(pvr.calls, "extract_face_from_document")
       IN  pvr' = IF ~id_face.found
                  THEN [pvr EXCEPT !.calls = called,
                                   !.results.errors =
                                       Append(@, "Could not extract face from document"),
                                   !.at = "returned"]
                  ELSE [pvr EXCEPT !.calls = called, !.id_face = id_face,
                                   !.results.document_face = TRUE,
                                   !.at = "verify"]
    /\ UNCHANGED pvrFrame

\* verification = self.verify_faces(id_face, selfie_img, id_metadata); an
\* exception goes to the handler, which appends str(e)
PipelineVerifyFaces ==
    /\ pvr # <<>> /\ pvr.at = "verify"
    /\ LET out == verify_faces(pvr.id_face.face_img, pvr.selfie_img,
                               pvr.id_face.metadata)
           called == Append(pvr.calls, "verify_faces")
       IN  pvr' = IF out.raised
                  THEN [pvr EXCEPT !.calls = called,
                                   !.results.errors = Append(@, out.message),
                                   !.at = "returned"]
                  ELSE [pvr EXCEPT !.calls = called, !.verification = out.result,
                                   !.at = "liveness"]
    /\ UNCHANGED pvrFrame

\* results after success and verification have been assigned
Reported(report, verification, score) ==
    [report EXCEPT !.success = TRUE, !.reported = TRUE,
                   !.verified = verification.verified,
                   !.confidence = verification.confidence,
                   !.method = verification.verification_method,
                   !.liveness_score = score]

\* the liveness check if enabled, then the report
PipelineReport ==
    /\ pvr # <<>> /\ pvr.at = "liveness"
    /\ IF ~pvr.liveness_enabled
       THEN pvr' = [pvr EXCEPT !.results = Reported(@, pvr.verification, 0),
                               !.at = "returned"]
       ELSE LET out == check_liveness(pvr.selfie_img)
                called == Append(pvr.calls, "check_liveness")
            IN  IF out.raised
                THEN pvr' = [pvr EXCEPT !.calls = called,
                                        !.results.errors = Append(@, out.message),
                                        !.at = "returned"]
                ELSE IF liveness_failed(out.score)
                THEN LET failed == [pvr.verification EXCEPT !.verified = FALSE]
                     IN  pvr' = [pvr EXCEPT
                                   !.calls = called,
                                   !.liveness_score = out.score,
                                   !.verification = failed,
                                   !.results = Reported(
                                       [@ EXCEPT !.errors =
                                            Append(@, "Liveness check failed")],
                                       failed, out.score),
                                   !.at = "returned"]
                ELSE pvr' = [pvr EXCEPT
                               !.calls = called,
                               !.liveness_score = out.score,
                               !.results = Reported(@, pvr.verification, out.score),
                               !.at = "returned"]
    /\ UNCHANGED pvrFrame

PipelineNext ==
    \/ LoadImages \/ PipelineExtractFace \/ PipelineVerifyFaces \/ PipelineReport

SpecPipeline == PipelineInit /\ [][PipelineNext]_vars

(***************************************************************************)
(* Claims about the full verification flow (checked under SpecFlow).       *)
(***************************************************************************)
\* C1: for every request that reaches the decision step, the reported
\* overall status is VERIFIED if and only if the face verification result is
\* verified and the extraction score is strictly greater than 70 and the
\* liveness score is at least min_score; otherwise it is FAILED.
C1_StatusFormula ==
    pc = "DECIDED" =>
        /\ response.status \in {"VERIFIED", "FAILED"}
        /\ response.status = "VERIFIED" <=>
               /\ verification_result.verified
               /\ ocr_result.extraction_score > 700
               /\ liveness_score >= LivenessMinScore

\* face extraction has run for the request and returned no face
C2_NoFaceReturned ==
    /\ pc # "IDLE"
    /\ \E i \in 1..Len(trace) : trace[i] = "face_extraction"
    /\ ~face.found

C3_NoFaceCarriesOcr ==
    C2_NoFaceReturned =>
        /\ pc = "FAILED_NO_FACE"
        /\ trace = SubSeq(StepOrder, 1, 3)
        /\ "ocr_data" \in response.keys
        /\ response.ocr_data = ocr_result
        /\ \E reading \in SampleReadings : response.ocr_data = extract(reading)
        /\ {"extraction_score", "extraction_summary"} \subseteq DOMAIN response.ocr_data
        /\ "error" \in response.keys
        /\ response.error = "No face detected in passport"

\* a no-face answer that carries a partial reading (4 of 8 important fields)
C3_Witness ==
    /\ pc = "FAILED_NO_FACE"
    /\ response.ocr_data = ocr_result
    /\ response.ocr_data.extraction_score = 500
    /\ req.passport_image.image.roiOk

\* an uploaded image of the request cannot be decoded
C4_Undecodable ==
    /\ pc # "IDLE"
    /\ req.fields = "present"
    /\ \/ ~req.passport_image.base64_ok \/ req.passport_image.image.isNone
       \/ ~req.selfie_image.base64_ok \/ req.selfie_image.image.isNone

\* C4: a request whose document image or selfie image cannot be decoded goes
\* from RECEIVED directly to FAILED_DECODE: OCR, face extraction, face
\* verification and liveness scoring are not executed for it, and the decode
\* error is in the response.
C4_DecodeShortCircuit ==
    C4_Undecodable =>
        /\ pc \in {"RECEIVED", "FAILED_DECODE"}
        /\ \A i \in 1..Len(trace) :
               trace[i] \notin {"ocr", "face_extraction", "face_verification", "liveness"}
        /\ pc = "FAILED_DECODE" =>
               /\ response.code = 500
               /\ response.error \in {"Failed to decode image", "Incorrect padding"}

\* C5: within one request the steps occur in the order preprocess, OCR, face
\* extraction, face verification, liveness check, decision, each at most
\* once; the only exits are DECIDED after all six steps, FAILED_DECODE
\* before OCR and FAILED_NO_FACE after face extraction, and no step follows
\* an exit.
C5_FixedOrder ==
    /\ \E n \in 0..Len(StepOrder) : trace = SubSeq(StepOrder, 1, n)
    /\ (pc \in Ended /\ pc # "REJECTED") =>
           \/ pc = "DECIDED" /\ trace = StepOrder
           \/ pc = "FAILED_DECODE" /\ Len(trace) <= 1
           \/ pc = "FAILED_NO_FACE" /\ trace = SubSeq(StepOrder, 1, 3)

(***************************************************************************)
(* Claims about verify_faces (checked under SpecVerify).                   *)
(***************************************************************************)
\* the primary path cannot produce a result for the arguments of the call
C6_PrimaryFails ==
    \/ ~vf_selfie.insOk
    \/ vf_selfie.insFaces = <<>>
    \/ /\ ~(vf_meta.present /\ vf_meta.embedding # NoEmbedding)
       /\ (~vf_id.insOk \/ vf_id.insFaces = <<>>)

\* the fallback comparator cannot produce a result for the arguments of the call
C6_FallbackFails ==
    \/ ~vf_id.frOk \/ ~vf_selfie.frOk
    \/ vf_id.frEncs = <<>> \/ vf_selfie.frEncs = <<>>

\* the message of the exception the fallback comparator raises
C6_FallbackMessage ==
    IF ~vf_id.frOk \/ ~vf_selfie.frOk
    THEN "face_recognition error"
    ELSE "Could not find face in one or both images"

\* C6: verify_faces never raises: every call returns a FaceVerificationResult,
\* and when both the primary and the fallback path fail the result is
\* verified = false, confidence = 0, method = failed, with the error message of
\* the fallback failure.
C6_VerifyNeverRaises ==
    vf_out # NotCalled =>
        /\ ~vf_out.raised
        /\ vf_out.result.verification_method \in
               {"insightface", "face_recognition", "failed"}
        /\ (C6_PrimaryFails /\ C6_FallbackFails) =>
               vf_out.result =
                   FaceVerificationResult(FALSE, 0, "failed", C6_FallbackMessage)
        /\ vf_out.result.verification_method = "failed" =>
               (C6_PrimaryFails /\ C6_FallbackFails)

\* both paths failed, the primary with a different message than the fallback
C6_Witness ==
    /\ vf_out # NotCalled
    /\ vf_selfie.insOk /\ vf_selfie.frOk
    /\ C6_PrimaryFails /\ C6_FallbackFails
    /\ vf_out.result.verification_method = "failed"
    /\ vf_out.result.error = "Could not find face in one or both images"

\* the two embeddings the primary path compares
C7_IdEmbedding ==
    IF vf_meta.present /\ vf_meta.embedding # NoEmbedding
    THEN vf_meta.embedding
    ELSE vf_id.insFaces[1].embedding

C7_SelfieEmbedding == vf_selfie.insFaces[1].embedding

\* C7: on the primary path the confidence is the cosine similarity of the two
\* embeddings (confidence * |e1| * |e2| = e1 . e2) and verified holds exactly
\* when similarity >= 1 - threshold; with threshold 0.4 a similarity of at
\* least 0.95 verifies and any similarity below 0.6 does not.
C7_PrimaryDecision ==
    (vf_out # NotCalled /\ vf_out.result.verification_method = "insightface") =>
        LET c == vf_out.result.confidence
        IN  /\ c * Norm(C7_IdEmbedding) * Norm(C7_SelfieEmbedding)
                  = Dot(C7_IdEmbedding, C7_SelfieEmbedding) * Scale
            /\ vf_out.result.verified <=> (c >= Scale - VerificationThreshold)
            /\ (c >= 9500) => vf_out.result.verified
            /\ (c < 6000) => ~vf_out.result.verified

\* a primary-path result exactly on the decision boundary 0.6
C7_Witness ==
    /\ vf_out # NotCalled
    /\ vf_out.result.verification_method = "insightface"
    /\ vf_out.result.confidence = 6000
    /\ vf_out.result.verified

\* C8: verify_faces is symmetric in its two face inputs: once both argument
\* orders have been evaluated, the confidences are equal and the verified
\* flags agree, whichever path produced them.
C8_Symmetric ==
    (vf_ab # NotCalled /\ vf_ba # NotCalled) =>
        /\ vf_ab.result.confidence = vf_ba.result.confidence
        /\ vf_ab.result.verified = vf_ba.result.verified

(***************************************************************************)
(* Claims about extract (checked under SpecExtract).                       *)
(***************************************************************************)
\* the 8 important fields
C9_ImportantFields ==
    {"passport_number", "full_name", "nationality", "date_of_birth",
     "date_of_issue", "date_of_expiry", "national_id", "sex"}

\* the number of important fields that are not absent
C9_Present == Cardinality({ f \in C9_ImportantFields : data[f] # None })

\* C9: the extraction_score returned by extract is 100 * k / 8, k the number
\* of non-absent fields among the 8 important fields (in tenths of a percent:
\* score * 8 = 1000 * k); it lies in [0, 100] and is one of 0, 12.5, ..., 100.
C9_ScoreIsEighths ==
    epc = "done" =>
        /\ data.extraction_score * 8 = 1000 * C9_Present
        /\ data.extraction_score >= 0 /\ data.extraction_score <= 1000
        /\ data.extraction_score \in { 125 * k : k \in 0..8 }

\* a finished result with 7 of the 8 important fields and a place of birth
C9_Witness ==
    /\ epc = "done"
    /\ C9_Present = 7
    /\ data.place_of_birth # None
    /\ data.extraction_score = 875

\* the 11 record fields
C10_RecordFields ==
    {"passport_number", "full_name", "nationality", "place_of_birth", "sex",
     "date_of_birth", "date_of_issue", "date_of_expiry", "national_id",
     "country_code", "passport_type"}

\* C10: in every result returned by extract, each of the 11 record fields that
\* is not absent has an entry in the confidence map.
C10_ConfidenceForEveryField ==
    epc = "done" =>
        \A f \in C10_RecordFields :
            data[f] # None => f \in DOMAIN data.confidence_scores

(***************************************************************************)
(* Claims about the field resolver (checked under SpecExtract).            *)
(***************************************************************************)
C11_DateFields == {"date_of_birth", "date_of_issue", "date_of_expiry"}

\* the triple in the ranges day 1..31, month 1..12, year 1900..2100
C11_InRange(day, month, year) ==
    /\ 1 <= day /\ day <= 31
    /\ 1 <= month /\ month <= 12
    /\ 1900 <= year /\ year <= 2100

\* d is written dd-mm-yyyy
C11_WellFormed(d) ==
    /\ Len(d) = 10
    /\ d[3] = "-" /\ d[6] = "-"
    /\ AllDigits(SubSeq(d, 1, 2)) /\ AllDigits(SubSeq(d, 4, 5))
    /\ AllDigits(SubSeq(d, 7, 10))

\* the date-like substrings of the combined text that denote a triple of
\* numbers outside the ranges, as triples
C11_OutOfRange ==
    LET hits == CombinedHits(all_texts, "date")
        parts(i) == Split(NormalizeDate(hits[i].val), "-")
    IN  { << Int_(parts(i)[1]), Int_(parts(i)[2]), Int_(parts(i)[3]) >> :
            i \in { j \in 1..Len(hits) :
                      /\ Len(parts(j)) = 3
                      /\ \A k \in 1..3 : IntOk(parts(j)[k])
                      /\ ~C11_InRange(Int_(parts(j)[1]), Int_(parts(j)[2]),
                                      Int_(parts(j)[3])) } }

\* C11: each of date_of_birth, date_of_issue and date_of_expiry that the
\* resolver assigns denotes a triple with day in 1..31, month in 1..12 and
\* year in 1900..2100, and no date-like substring outside these ranges is
\* assigned to any field.
C11_DatesInRange ==
    \A f \in C11_DateFields :
        data[f] # None =>
            LET d == data[f]
                day == Int_(SubSeq(d, 1, 2))
                month == Int_(SubSeq(d, 4, 5))
                year == Int_(SubSeq(d, 7, 10))
            IN  /\ C11_WellFormed(d)
                /\ C11_InRange(day, month, year)
                /\ <<day, month, year>> \notin C11_OutOfRange

\* a finished run over a text with out-of-range date-like substrings in which
\* all three date fields were assigned
C11_Witness ==
    /\ epc = "done"
    /\ C11_OutOfRange # {}
    /\ \A f \in C11_DateFields : data[f] # None

\* the valid dates found in the combined text, as the set of their triples
\* <<year, month, day>>
C12_D ==
    LET hits == CombinedHits(all_texts, "date")
        parts(i) == Split(NormalizeDate(hits[i].val), "-")
    IN  { << Int_(parts(i)[3]), Int_(parts(i)[2]), Int_(parts(i)[1]) >> :
            i \in { j \in 1..Len(hits) :
                      /\ Len(parts(j)) = 3
                      /\ \A k \in 1..3 : IntOk(parts(j)[k])
                      /\ C11_InRange(Int_(parts(j)[1]), Int_(parts(j)[2]),
                                     Int_(parts(j)[3])) } }

\* ascending by (year, month, day)
C12_Less(a, b) ==
    \/ a[1] < b[1]
    \/ a[1] = b[1] /\ a[2] < b[2]
    \/ a[1] = b[1] /\ a[2] = b[2] /\ a[3] < b[3]

\* D[k]: the member of D with k - 1 members before it
C12_At(D, k) == CHOOSE t \in D : Cardinality({u \in D : C12_Less(u, t)}) = k - 1

\* the triple a dd-mm-yyyy string denotes
C12_Triple(d) ==
    << Int_(SubSeq(d, 7, 10)), Int_(SubSeq(d, 4, 5)), Int_(SubSeq(d, 1, 2)) >>

\* the date step of the run is over
C12_DatesDone == epc \in {"name", "sex", "place_of_birth", "nationality", "score", "done"}

\* C12: with D the deduplicated valid dates of the combined text in ascending
\* (year, month, day) order and n = |D|: date_of_birth is D[1] iff n >= 1,
\* date_of_issue is D[2] when n = 2 and D[n-1] when n >= 3 (absent when
\* n < 2), date_of_expiry is D[n] iff n >= 3; the text with 01-01-1990,
\* 15-03-2015 and 15-03-2025 gets them as birth, issue and expiry.
C12_PositionalDates ==
    C12_DatesDone =>
        LET D == C12_D
            n == Cardinality(D)
        IN  /\ IF n >= 1
               THEN /\ data.date_of_birth # None
                    /\ C12_Triple(data.date_of_birth) = C12_At(D, 1)
               ELSE data.date_of_birth = None
            /\ IF n >= 2
               THEN /\ data.date_of_issue # None
                    /\ C12_Triple(data.date_of_issue)
                           = C12_At(D, IF n = 2 THEN 2 ELSE n - 1)
               ELSE data.date_of_issue = None
            /\ IF n >= 3
               THEN /\ data.date_of_expiry # None
                    /\ C12_Triple(data.date_of_expiry) = C12_At(D, n)
               ELSE data.date_of_expiry = None
            /\ D = {<<1990, 1, 1>>, <<2015, 3, 15>>, <<2025, 3, 15>>} =>
                   /\ data.date_of_birth
                          = <<"0", "1", "-", "0", "1", "-", "1", "9", "9", "0">>
                   /\ data.date_of_issue
                          = <<"1", "5", "-", "0", "3", "-", "2", "0", "1", "5">>
                   /\ data.date_of_expiry
                          = <<"1", "5", "-", "0", "3", "-", "2", "0", "2", "5">>

\* a finished run with at least four distinct valid dates, where the
\* second-to-last date is not the second
C12_Witness ==
    /\ epc = "done"
    /\ Cardinality(C12_D) >= 4
    /\ C12_Triple(data.date_of_issue) = C12_At(C12_D, Cardinality(C12_D) - 1)
    /\ C12_At(C12_D, 2) # C12_At(C12_D, Cardinality(C12_D) - 1)

\* the letter P followed by 8 or 9 decimal digits
C13_IsPassportNumber(c) ==
    /\ Len(c) \in {9, 10}
    /\ c[1] = "P"
    /\ \A k \in 2..Len(c) : c[k] \in {"0", "1", "2", "3", "4", "5", "6", "7", "8", "9"}

\* the normalized candidate of match j of observation i
C13_Candidate(i, j) ==
    Upper(RemoveChar(ReplaceChar(all_texts[i].text.passport[j].val, "O", "0"), " "))

\* the positions <<i, j>> of the accepted candidates
C13_Accepted ==
    { ij \in UNION { { <<i, j>> : j \in 1..Len(all_texts[i].text.passport) } :
                     i \in 1..Len(all_texts) } :
        C13_IsPassportNumber(C13_Candidate(ij[1], ij[2])) }

\* the accepted candidate the scan meets first: observations in bag order,
\* and within one observation patterns in list order, matches left to right
C13_First ==
    CHOOSE ij \in C13_Accepted :
        \A kl \in C13_Accepted :
            ij[1] < kl[1] \/ (ij[1] = kl[1] /\ ij[2] <= kl[2])

\* the passport-number step of the run is over
C13_NumberDone == epc # "passport_number"

\* C13: whenever passport_number is set it is the letter P followed by 8 or 9
\* digits, its confidence is 0.95 and extraction_method names the observation
\* it came from; it is the first accepted candidate of the scan (observations
\* in bag order, patterns in list order, matches left to right), and no later
\* candidate and no later step replaces it.
C13_FirstAcceptedNumber ==
    (C13_NumberDone /\ data.passport_number # None) =>
        /\ C13_IsPassportNumber(data.passport_number)
        /\ "passport_number" \in DOMAIN data.confidence_scores
        /\ data.confidence_scores.passport_number = 9500
        /\ "passport_number" \in DOMAIN data.extraction_method
        /\ C13_Accepted # {}
        /\ data.passport_number = C13_Candidate(C13_First[1], C13_First[2])
        /\ data.extraction_method.passport_number = all_texts[C13_First[1]].source

\* a finished run over two observations that hold different accepted numbers
C13_Witness ==
    /\ epc = "done"
    /\ data.passport_number # None
    /\ \E ij \in C13_Accepted :
           /\ ij[1] > C13_First[1]
           /\ C13_Candidate(ij[1], ij[2]) # data.passport_number

\* the entry of a dict-valued field for passport_number, None when it has none
C14_Entry(map) ==
    IF "passport_number" \in DOMAIN map THEN <<map.passport_number>> ELSE <<>>

C15_Permuted(p) == [i \in 1..Len(all_texts) |-> all_texts[p[i]]]

\* C15: the resolver treats the observation bag as a set: for every
\* permutation of the observations of a bag, the resolved field values
\* (passport_number and full_name among them) and their extraction_method
\* entries are the ones resolved for the bag itself.
C15_OrderIndependent ==
    epc = "done" =>
        \A p \in Permutations(1..Len(all_texts)) :
            LET other == extract(C15_Permuted(p))
            IN  /\ \A f \in C10_RecordFields : other[f] = data[f]
                /\ other.extraction_method = data.extraction_method

\* the upper-cased text of some observation contains an indicator token
C16_IndicatorFound == \E i \in 1..Len(all_texts) : all_texts[i].text.indicators # <<>>

\* C16: if the upper-cased combined text contains a nationality indicator
\* token, nationality = SUDANESE, country_code = SDN and passport_type = PC
\* are all set; otherwise all three stay absent; at every point of a run the
\* three fields are present together or absent together.
C16_NationalityTriple ==
    /\ (data.nationality = None) = (data.country_code = None)
    /\ (data.nationality = None) = (data.passport_type = None)
    /\ epc \in {"score", "done"} =>
           IF C16_IndicatorFound
           THEN /\ data.nationality = <<"S", "U", "D", "A", "N", "E", "S", "E">>
                /\ data.country_code = <<"S", "D", "N">>
                /\ data.passport_type = <<"P", "C">>
           ELSE /\ data.nationality = None
                /\ data.country_code = None
                /\ data.passport_type = None

\* a finished run whose only finding is the indicator
C16_Witness ==
    /\ epc = "done"
    /\ C16_IndicatorFound
    /\ data.nationality # None
    /\ data.passport_number = None
    /\ data.extraction_score = 125

(***************************************************************************)
(* Claims about the usage counters (checked under SpecStats).              *)
(***************************************************************************)
\* every request has been answered
C17_AllCompleted == \A t \in DOMAIN threads : threads[t].at = "done"

\* the requests whose score was positive
C17_Scored ==
    {t \in DOMAIN threads :
        /\ AfterProcess(threads[t].job)
               \in {"successful_extractions", "vp_successful_extractions"}}

\* the requests whose score was not positive
C17_Unscored ==
    {t \in DOMAIN threads :
        AfterProcess(threads[t].job) = "failed_extractions"}

\* the requests that ended in the except handler
C17_Raised ==
    {t \in DOMAIN threads :
        threads[t].job.route = "extract" /\ threads[t].code = 500}

\* the requests to a handler that counts its requests
C17_Counted == {t \in DOMAIN threads : threads[t].job.route # "stats"}

\* C17: for every interleaving of N concurrently processed requests that
\* have all completed, total_requests has grown by exactly N, and each
\* success/failure counter has grown by exactly the number of requests that
\* met its condition.
C17_NoLostUpdates ==
    (threads # <<>> /\ C17_AllCompleted) =>
        /\ stats.total_requests =
               InitialStats.total_requests + Cardinality(C17_Counted)
        /\ stats.successful_extractions =
               InitialStats.successful_extractions + Cardinality(C17_Scored)
        /\ stats.failed_extractions =
               InitialStats.failed_extractions
                   + Cardinality(C17_Unscored) + Cardinality(C17_Raised)

(***************************************************************************)
(* Further claims about the full verification flow (checked under          *)
(* SpecFlow).                                                              *)
(***************************************************************************)
\* the selfie whose liveness the request had scored
C18_Selfie == req.selfie_image.image

\* the detector-confidence signal of the selfie is available
C18_DetectorAvailable ==
    /\ Len(C18_Selfie.insFaces) > 0
    /\ C18_Selfie.insFaces[1].det_score # 0

\* the weighted sum of the three image signals, in 1/10000 of their weights
C18_ImageSignals ==
    2500 * blur_score(C18_Selfie) + 2500 * color_score(C18_Selfie)
        + 3000 * _analyze_texture(C18_Selfie)

\* C18: the liveness score is the weighted sum of the signals with weights
\* 0.25 (sharpness), 0.25 (colour), 0.30 (texture) and 0.20 (detector
\* confidence); when the detector-confidence signal is unavailable the
\* weights of the three remaining signals are renormalized to sum to 1, so
\* three signals all equal to 1 yield a liveness score of 1.
C18_Renormalized ==
    pc = "LIVENESS_CHECKED" =>
        IF C18_DetectorAvailable
        THEN liveness_score =
                 (C18_ImageSignals + 2000 * C18_Selfie.insFaces[1].det_score) \div 10000
        ELSE /\ liveness_score = C18_ImageSignals \div (2500 + 2500 + 3000)
             /\ (/\ blur_score(C18_Selfie) = 10000
                 /\ color_score(C18_Selfie) = 10000
                 /\ _analyze_texture(C18_Selfie) = 10000) => liveness_score = 10000

\* the document whose face the request had extracted
C19_Document == req.passport_image.image

\* the primary engine returned a face on the region of interest
C19_PrimaryFound ==
    /\ ~C19_Document.isNone
    /\ C19_Document.roiOk
    /\ Len(C19_Document.roiFaces) > 0

\* the cascade would find a face on the region of interest
C19_CascadeFound ==
    /\ ~C19_Document.isNone
    /\ C19_Document.roiOk
    /\ Len(C19_Document.cascadeBoxes) > 0

\* the returned pair is the best face of the primary engine
C19_FromPrimary ==
    \E i \in 1..Len(C19_Document.roiFaces) :
        /\ \A j \in 1..Len(C19_Document.roiFaces) :
              C19_Document.roiFaces[j].det_score <= C19_Document.roiFaces[i].det_score
        /\ face.face_img = C19_Document.roiFaces[i].crop
        /\ face.metadata.present
        /\ face.metadata.embedding = C19_Document.roiFaces[i].embedding
        /\ face.metadata.det_score = C19_Document.roiFaces[i].det_score

\* the returned pair is a face of the cascade detector
C19_FromCascade ==
    \E i \in 1..Len(C19_Document.cascadeBoxes) :
        /\ face.face_img = C19_Document.cascadeBoxes[i].crop
        /\ face.metadata.present
        /\ face.metadata.embedding = <<>>
        /\ face.metadata.det_score = 8000

C20_FailedAfterOcr ==
    /\ ocr_result # NoOcr
    /\ pc \in {"FAILED_NO_FACE", "FAILED_ERROR"}

\* C20: once OCR has produced a result, any failure of a later component (no
\* face found, face verifier failure, liveness scorer raising, result
\* persistence failing) still produces a response that contains the OCR
\* result together with an explicit failure reason, never a generic failure
\* that drops the OCR result.
C20_PartialResultKept ==
    C20_FailedAfterOcr =>
        /\ "ocr_data" \in response.keys
        /\ response.ocr_data = ocr_result
        /\ "error" \in response.keys
        /\ response.error # NoError

(***************************************************************************)
(* Further claims about the field resolver (checked under SpecExtract).    *)
(***************************************************************************)
\* the labels of the uniform-block, high-confidence and single-column passes
C21_Labels ==
    << <<"u", "n", "i", "f", "o", "r", "m", "_", "b", "l", "o", "c", "k">>,
       <<"h", "i", "g", "h", "_", "c", "o", "n", "f", "i", "d", "e", "n", "c", "e">>,
       <<"s", "i", "n", "g", "l", "e", "_", "c", "o", "l", "u", "m", "n">> >>

\* the candidates (by position) whose source label denotes the pass of rank r
C21_From(cands, r) ==
    {k \in 1..Len(cands) : Contains(cands[k].source, C21_Labels[r])}

\* the name step has run
C21_NameDone == epc \in {"sex", "place_of_birth", "nationality", "score", "done"}

\* candidate k is the accepted full name, with the given confidence
C21_Accepted(cands, k, confidence) ==
    /\ data.full_name = cands[k].name
    /\ "full_name" \in DOMAIN data.extraction_method
    /\ data.extraction_method.full_name = cands[k].source
    /\ "full_name" \in DOMAIN data.confidence_scores
    /\ data.confidence_scores.full_name = confidence

\* C21: if at least one name candidate comes from a source whose label
\* denotes the uniform-block, high-confidence or single-column pass, the
\* accepted full_name is a candidate from the highest-ranked such source
\* (uniform-block before high-confidence before single-column) with
\* confidence 0.85; only if no candidate comes from any of those sources is
\* the single longest candidate accepted, with confidence 0.75; with no
\* candidates full_name stays absent.
C21_PreferredName ==
    C21_NameDone =>
        LET cands == NameCandidates(all_texts)
        IN  IF cands = <<>>
            THEN /\ data.full_name = None
                 /\ "full_name" \notin DOMAIN data.confidence_scores
            ELSE IF \E r \in 1..3 : C21_From(cands, r) # {}
            THEN \E r \in 1..3 :
                    /\ \A q \in 1..(r - 1) : C21_From(cands, q) = {}
                    /\ \E k \in C21_From(cands, r) : C21_Accepted(cands, k, 8500)
            ELSE \E k \in 1..Len(cands) :
                    /\ \A j \in 1..Len(cands) : Len(cands[j].name) <= Len(cands[k].name)
                    /\ C21_Accepted(cands, k, 7500)

\* the high-confidence pass wins over the single-column pass seen earlier
C21_Witness ==
    /\ epc = "done"
    /\ Len(all_texts) = 2
    /\ Contains(all_texts[1].source, C21_Labels[3])
    /\ Contains(all_texts[2].source, C21_Labels[2])
    /\ all_texts[1].text.name # <<>>
    /\ data.full_name # None
    /\ data.extraction_method.full_name = all_texts[2].source
    /\ data.confidence_scores.full_name = 8500

\* spaces and dots mapped to hyphens
C22_Normalized(match) ==
    [i \in 1..Len(match) |->
        IF match[i] \in {" ", "\t", "\n", "\r", "."} THEN "-" ELSE match[i]]

\* 3 digits, hyphen, 4 digits, hyphen, 4 or 5 digits
C22_Shape(c) ==
    /\ Len(c) \in {13, 14}
    /\ \A i \in 1..Len(c) :
          IF i \in {4, 9} THEN c[i] = "-"
          ELSE c[i] \in {"0", "1", "2", "3", "4", "5", "6", "7", "8", "9"}

\* the matches of the national-id patterns, in pattern-list then
\* left-to-right order
C22_Matches == CombinedHits(all_texts, "national_id")

\* the matches whose normalized form has the shape
C22_Shaped ==
    {i \in 1..Len(C22_Matches) : C22_Shape(C22_Normalized(C22_Matches[i].val))}

\* C22: whenever national_id is set it has the form of 3 digits, hyphen, 4
\* digits, hyphen, 4 or 5 digits, with confidence 0.9, and it is the
\* normalized form (spaces and dots mapped to hyphens) of the first pattern
\* match, in pattern-list then left-to-right order, whose normalized form
\* has that shape; a match without separators (a bare 11-12 digit run) is
\* never accepted.
C22_NationalIdShape ==
    /\ data.national_id # None =>
          /\ C22_Shape(data.national_id)
          /\ "national_id" \in DOMAIN data.confidence_scores
          /\ data.confidence_scores.national_id = 9000
          /\ \E k \in C22_Shaped :
                /\ \A j \in C22_Shaped : k <= j
                /\ data.national_id = C22_Normalized(C22_Matches[k].val)
                /\ ~AllDigits(C22_Matches[k].val)
    /\ (epc \in {"dates", "name", "sex", "place_of_birth", "nationality", "score", "done"}
          /\ C22_Shaped # {}) => data.national_id # None

\* a spaced match is accepted after a match of another shape was passed
\* over, in a bag that also holds a bare digit run
C22_Witness ==
    /\ epc = "done"
    /\ data.national_id = <<"1", "2", "3", "-", "4", "5", "6", "7", "-",
                            "8", "9", "0", "1", "2">>
    /\ \E k \in C22_Shaped :
          /\ \A j \in C22_Shaped : k <= j
          /\ k > 1
          /\ \E i \in 1..Len(C22_Matches) : AllDigits(C22_Matches[i].val)
          /\ \E i \in 1..Len(C22_Matches[k].val) : C22_Matches[k].val[i] = " "

\* C23: whenever the sex field is set by the resolver, its value is exactly
\* 'M' or 'F' and its confidence is 0.95; no other character (such as '/' or
\* a non-Latin letter) is ever stored as sex.
C23_SexIsMOrF ==
    data.sex # None =>
        /\ data.sex \in {<<"M">>, <<"F">>}
        /\ "sex" \in DOMAIN data.confidence_scores
        /\ data.confidence_scores.sex = 9500

(***************************************************************************)
(* Claims about the recognition aggregator (checked under SpecAggregate).  *)
(***************************************************************************)
\* empty or whitespace-only text
C24_Blank(text) == \A i \in 1..Len(text) : text[i] \in {" ", "\t", "\n", "\r"}

\* what the engine did on run r over variant v
C24_Outcome(v, r) ==
    IF r <= 5 THEN variants[v].engine.config[r]
    ELSE IF r <= 7 THEN variants[v].engine.lang[r - 5]
    ELSE IF r = 8 THEN variants[v].engine.data
    ELSE variants[v].engine.region[r - 8]

\* the label of run r
C24_Method(r) ==
    IF r <= 5 THEN config_names[r]
    ELSE IF r <= 7 THEN lang_methods[r - 5]
    ELSE IF r = 8 THEN Str_high_confidence
    ELSE region_methods[r - 8]

\* run r over variant v returned text that is not blank (for the
\* high-confidence pass: a word above the threshold that is not blank)
C24_ReturnedText(v, r) ==
    /\ ~C24_Outcome(v, r).raises
    /\ IF r = 8
       THEN \E k \in 1..Len(C24_Outcome(v, r).words) :
               /\ C24_Outcome(v, r).words[k].conf > 60
               /\ ~C24_Blank(C24_Outcome(v, r).words[k].text)
       ELSE ~C24_Blank(C24_Outcome(v, r).text)

\* the runs that returned text, in running order, as <<variant, run>>
C24_Runs ==
    SelectSeq([k \in 1..(11 * Len(variants)) |->
                  <<((k - 1) \div 11) + 1, ((k - 1) % 11) + 1>>],
              LAMBDA p : C24_ReturnedText(p[1], p[2]))

\* C24: every engine run that raises or returns only whitespace contributes
\* no observation and does not prevent any other run (other modes,
\* languages, high-confidence pass, regions, other variants) from being
\* attempted and contributing; the bag contains exactly one observation per
\* run that returned non-whitespace text, and no observation has empty or
\* whitespace-only text.
C24_OneObservationPerRun ==
    /\ \A k \in 1..Len(results) : ~C24_Blank(results[k].text)
    /\ \A k \in 1..Len(all_extracted_texts) : ~C24_Blank(all_extracted_texts[k].text)
    /\ (variants # <<>> /\ vi > Len(variants)) =>
          /\ Len(all_extracted_texts) = Len(C24_Runs)
          /\ \A k \in 1..Len(C24_Runs) :
                LET v == C24_Runs[k][1]
                    r == C24_Runs[k][2]
                IN  /\ all_extracted_texts[k].source =
                           variants[v].name \o <<"_">> \o C24_Method(r)
                    /\ r # 8 => all_extracted_texts[k].text = C24_Outcome(v, r).text

\* the engine failed on every run over the first variant and on the first
\* runs over the second, and the later runs still contributed
C24_Witness ==
    /\ Len(variants) = 2
    /\ vi = 3
    /\ \A r \in 1..11 : C24_Outcome(1, r).raises
    /\ C24_Outcome(2, 1).raises
    /\ C24_Outcome(2, 2).text # <<>> /\ C24_Blank(C24_Outcome(2, 2).text)
    /\ Len(all_extracted_texts) = 4

(***************************************************************************)
(* Further claims about verify_faces (checked under SpecVerify).           *)
(***************************************************************************)
\* the distances between every encoding of the document face and every
\* encoding of the selfie
C25_PairwiseDistances ==
    {Norm(VecSub(vf_id.frEncs[i], vf_selfie.frEncs[j])) :
        i \in 1..Len(vf_id.frEncs), j \in 1..Len(vf_selfie.frEncs)}

C25_MinDistance ==
    CHOOSE m \in C25_PairwiseDistances : \A d \in C25_PairwiseDistances : m <= d

\* C25: the fallback comparison runs only after the primary path has failed;
\* when it succeeds the result has method face_recognition, confidence =
\* 1 - (minimum pairwise distance between the encodings) and verified
\* decided by comparing that confidence against the threshold; the primary
\* path's result is returned unchanged whenever the primary path succeeds.
C25_FallbackAfterPrimary ==
    vf_out # NotCalled =>
        LET primary == PrimaryPath(vf_id, vf_selfie, vf_meta)
        IN  IF ~primary.raised
            THEN /\ vf_out = primary
                 /\ vf_out.result.verification_method = "insightface"
            ELSE vf_out.result.verification_method = "face_recognition" =>
                    /\ vf_out.result.confidence = 10000 - C25_MinDistance
                    /\ vf_out.result.verified = (vf_out.result.confidence >= 4000)

(***************************************************************************)
(* Claims about the dates of a result (checked under SpecExtract).         *)
(***************************************************************************)
\* the date fields that are present
C26_Present == {f \in C11_DateFields : data[f] # None}

\* the date-like substrings of the combined text that denote a valid date,
\* as written
C26_Written ==
    LET hits == CombinedHits(all_texts, "date")
    IN  {hits[i].val : i \in {j \in 1..Len(hits) :
                                ValidDateParts(Split(NormalizeDate(hits[j].val), "-"))}}

\* the triple <<year, month, day>> a date-like substring denotes
C26_Denotes(written) ==
    LET parts == Split(NormalizeDate(written), "-")
    IN  << Int_(parts[3]), Int_(parts[2]), Int_(parts[1]) >>

\* C26: in every result the assigned dates are strictly chronologically
\* ordered and prefix-closed: date_of_expiry present implies date_of_issue
\* present, date_of_issue present implies date_of_birth present, and
\* date_of_birth < date_of_issue < date_of_expiry (by year, month, day)
\* whenever the respective fields are present; two substrings denoting the
\* same (day, month, year) with different separators or zero-padding count
\* as one date.
C26_ChronologicalDates ==
    /\ data.date_of_expiry # None => data.date_of_issue # None
    /\ data.date_of_issue # None => data.date_of_birth # None
    /\ data.date_of_issue # None =>
          C12_Less(C12_Triple(data.date_of_birth), C12_Triple(data.date_of_issue))
    /\ data.date_of_expiry # None =>
          C12_Less(C12_Triple(data.date_of_issue), C12_Triple(data.date_of_expiry))
    /\ C12_DatesDone =>
          LET n == Cardinality({C26_Denotes(w) : w \in C26_Written})
          IN  Cardinality(C26_Present) = IF n >= 3 THEN 3 ELSE n

\* three dates assigned from a text that writes four valid date strings, one
\* of the dates twice with different separators and zero-padding
C26_Witness ==
    /\ epc = "done"
    /\ Cardinality(C26_Present) = 3
    /\ Cardinality(C26_Written) = 4
    /\ \E v, w \in C26_Written :
          /\ C26_Denotes(v) = C26_Denotes(w)
          /\ Len(v) < Len(w)
          /\ \E i \in 1..Len(w) : w[i] = "/"


(***************************************************************************)
(* Further claims about the usage counters (checked under SpecStats).      *)
(***************************************************************************)
\* C27: in every reachable state of the server, successful_extractions +
\* failed_extractions <= total_requests: one request is counted in at most
\* one of the two, whatever step of it fails.  The requests are served one
\* at a time here, so that no update is lost.
C27_CountedOnce ==
    ~threaded =>
        stats.successful_extractions + stats.failed_extractions
            <= stats.total_requests

\* the sum of the extraction scores of a set of requests
RECURSIVE C28_Sum(_)
C28_Sum(S) ==
    IF S = {} THEN 0
    ELSE LET t == CHOOSE x \in S : TRUE
         IN threads[t].job.extraction_score + C28_Sum(S \ {t})

\* the requests that were counted in successful_extractions
C28_CountedScores == C17_Scored

\* C28: after any sequence of completed requests to any mix of endpoints,
\* processed serially, average_accuracy is the arithmetic mean of the
\* extraction scores of exactly those extractions that were counted in
\* successful_extractions.
C28_AverageIsMean ==
    (~threaded /\ C17_AllCompleted /\ C28_CountedScores # {}) =>
        /\ stats.successful_extractions = Cardinality(C28_CountedScores)
        /\ stats.average_accuracy =
               C28_Sum(C28_CountedScores) \div Cardinality(C28_CountedScores)

\* C29: in every state a concurrent reader of the statistics can observe
\* (GET /stats interleaved with requests in flight),
\* successful_verifications <= face_verifications <= total_requests.
C29_ReaderSeesOrdered ==
    \A t \in DOMAIN threads :
        (threads[t].job.route = "stats" /\ threads[t].at = "done") =>
            /\ threads[t].seen.successful_verifications
                   <= threads[t].seen.face_verifications
            /\ threads[t].seen.face_verifications
                   <= threads[t].seen.total_requests


(***************************************************************************)
(* Claims about process_verification_request (checked under SpecPipeline). *)
(***************************************************************************)
\* the call has returned, and liveness was enabled
C30_ReturnedEnabled == pvr # <<>> /\ pvr.at = "returned" /\ pvr.liveness_enabled

\* the face extract_face_from_document gives for the document of the call
C30_Face == extract_face_from_document(pvr.document_img)

\* a face was extracted from the document
C30_FaceExtracted ==
    ~pvr.document_img.isNone /\ ~pvr.selfie_img.isNone /\ C30_Face.found

\* what verify_faces gives for the extracted face and the selfie
C30_Comparison ==
    verify_faces(C30_Face.face_img, pvr.selfie_img, C30_Face.metadata)

\* what check_liveness gives for the selfie
C30_Liveness == check_liveness(pvr.selfie_img)

\* C30: in process_verification_request with liveness enabled, the reported
\* verified flag is true only if the face comparison verified the pair and
\* the liveness score is at least min_score; a liveness score below
\* min_score forces verified to false and adds a liveness error; and when
\* no face is extracted from the document the call returns success = false
\* without invoking verify_faces or check_liveness.
C30_VerifiedNeedsLiveness ==
    C30_ReturnedEnabled =>
        /\ (pvr.results.reported /\ pvr.results.verified) =>
               /\ C30_FaceExtracted
               /\ ~C30_Comparison.raised /\ C30_Comparison.result.verified
               /\ ~C30_Liveness.raised /\ C30_Liveness.score >= LivenessMinScore
        /\ (/\ C30_FaceExtracted /\ ~C30_Comparison.raised
            /\ ~C30_Liveness.raised /\ C30_Liveness.score < LivenessMinScore) =>
               /\ pvr.results.reported /\ ~pvr.results.verified
               /\ \E i \in DOMAIN pvr.results.errors :
                      pvr.results.errors[i] = "Liveness check failed"
        /\ (~pvr.document_img.isNone /\ ~pvr.selfie_img.isNone /\ ~C30_Face.found) =>
               /\ ~pvr.results.success
               /\ pvr.calls = <<"extract_face_from_document">>

\* a pair the comparison verified was reported unverified because the
\* selfie's liveness score is below min_score
C30_Witness ==
    /\ C30_ReturnedEnabled /\ C30_FaceExtracted
    /\ ~C30_Comparison.raised /\ C30_Comparison.result.verified
    /\ ~C30_Liveness.raised /\ C30_Liveness.score < LivenessMinScore
    /\ pvr.results.success /\ ~pvr.results.verified

====
